---- MODULE Spec2Model ----
(***************************************************************************)
(* A model of the jeepyb command-line utilities (openstack-infra/jeepyb).  *)
(*                                                                         *)
(* Every script is a sequential, single-process batch program.  The model  *)
(* holds one group of variables per script family:                         *)
(*   - the project synchronizers manage_projects.py and track_upstream.py  *)
(*     (specification Spec),                                               *)
(*   - the registry loader of utils.py (specification SpecRegistry),       *)
(*   - the welcome-message hook (specification SpecWelcome),               *)
(*   - the doc-impact hook (specification SpecImpact).                     *)
(* Strings whose structure the code inspects (split, endswith, rindex) are *)
(* sequences of tokens; a token stands for a run of characters.            *)
(***************************************************************************)
EXTENDS Integers, Sequences, FiniteSets, TLC

\* ------------------------------------------------------------------ bounds
\* Number of records in the registry file read by a synchronizer run.
NumProjects == 2

\* --------------------------------------------------- strings (token level)
\* Python's None, and the value dict.get returns for a missing key.
None == <<"None">>

\* s.endswith(suffix)
EndsWith(s, suffix) ==
    /\ Len(s) >= Len(suffix)
    /\ SubSeq(s, Len(s) - Len(suffix) + 1, Len(s)) = suffix

\* s.split(sep): the maximal runs of tokens between separators, in order.
RECURSIVE SplitFrom(_, _, _, _)
SplitFrom(s, sep, i, cur) ==
    IF i > Len(s) THEN <<cur>>
    ELSE IF s[i] = sep THEN <<cur>> \o SplitFrom(s, sep, i + 1, <<>>)
    ELSE SplitFrom(s, sep, i + 1, Append(cur, s[i]))

Split(s, sep) == SplitFrom(s, sep, 1, <<>>)

\* sep in s
Contains(s, tok) == \E i \in 1..Len(s) : s[i] = tok

\* ------------------------------------------------------------ utils.py
\* entry.get(key, default) for the keys the scripts read
GetAclConfig(entry, default) ==
    IF entry.acl_config = None THEN default ELSE entry.acl_config

\* utils.is_retired raises ValueError when the tuple unpacking
\* (org, name) = project.split('/') does not get exactly two parts.
is_retired_raises(entry) ==
    /\ ~EndsWith(GetAclConfig(entry, <<>>), <<"/", "retired.config">>)
    /\ Contains(entry.project, "/")
    /\ Len(Split(entry.project, "/")) # 2

\* is_retired looking for '-attic' at the end of the name, not of the
\* organisation.
is_retired_name_attic(entry) ==
    \/ EndsWith(GetAclConfig(entry, <<>>), <<"/", "retired.config">>)
    \/ /\ Contains(entry.project, "/")
       /\ EndsWith(Split(entry.project, "/")[2], <<"-attic">>)

\* utils.is_retired, where it returns.
is_retired(entry) ==
    \/ EndsWith(GetAclConfig(entry, <<>>), <<"/", "retired.config">>)
    \/ /\ Contains(entry.project, "/")
       /\ EndsWith(Split(entry.project, "/")[1], <<"-attic">>)

\* =========================================================================
\*  The project synchronizers: cmd/manage_projects.py, cmd/track_upstream.py
\* =========================================================================
VARIABLES
    script,             \* which synchronizer this process runs
    pc,                 \* position of main()
    idx,                \* position of the project loop in the registry
    section,            \* the registry record of the current iteration
    project_list,       \* gerrit.listProjects() at the start of the run
    ssh_wrapper,        \* the GIT_SSH temp file: "none", "exists", "deleted"
    unlinks,            \* number of os.unlink calls on the wrapper
    project_created,    \* main's local of that name
    push_string,        \* main's local of that name (kept across iterations)
    log,                \* external commands issued for the current project
    failed_before,      \* an earlier project of this run ended in the handler
    interrupted,        \* an exception is propagating out of the loop
    args_projects,      \* the command line's project filter
    GERRIT_REPLICATE,   \* registry default 'gerrit-replicate'
    default_has_github, \* registry default 'has-github'
    project_cache,      \* content of JEEPYB_CACHE_DIR/project.cache
    cache_at_start,     \* its content when the run began
    work_dirs           \* the projects whose working directory is on disk

syncVars == <<script, pc, idx, section, project_list, ssh_wrapper, unlinks,
              project_created, push_string, log, failed_before, interrupted,
              args_projects, GERRIT_REPLICATE, default_has_github,
              project_cache, cache_at_start, work_dirs>>

\* The registry loader (utils.ProjectsRegistry).
VARIABLES
    yaml_doc,           \* the documents of projects.yaml, each a list of records
    single_doc,         \* the constructor's argument of that name
    ini,                \* the [projects] section of PROJECTS_INI, or NoIni
    reg_pc,             \* what the caller of the registry did last
    self_configs_list,  \* ProjectsRegistry._configs_list
    self_defaults,      \* ProjectsRegistry.defaults
    reg_call,           \* the arguments of the last get_defaults call
    reg_ret,            \* the value the last get_defaults call returned
    listed,             \* the list the last configs_list access returned
    acted               \* the records the iterating script has acted on

registryVars == <<yaml_doc, single_doc, ini, reg_pc, self_configs_list,
                  self_defaults, reg_call, reg_ret, listed, acted>>

\* The welcome-message hook (cmd/welcome_message.py).
VARIABLES
    wel_pc,                 \* position of main()
    uploader,               \* args.uploader
    patchset,               \* args.patchset
    wel_dryrun,             \* args.dryrun
    patch_sets,             \* rows of the review database's patch_sets table
    account_external_ids,   \* rows of its account_external_ids table
    newbie,                 \* what is_newbie returned
    posted                  \* number of welcome messages posted

welcomeVars == <<wel_pc, uploader, patchset, wel_dryrun, patch_sets,
                 account_external_ids, newbie, posted>>

\* The impact hook (cmd/notify_impact.py).
VARIABLES
    imp_pc,             \* position of main()
    args,               \* the parsed command line
    git_log,            \* output of extract_git_log, line by line
    bugs,               \* the createBug calls made on Launchpad
    printed,            \* number of dry-run reports printed
    mails,              \* number of mails sent
    lp_titles           \* titles of the bugs Launchpad holds before the run

impactVars == <<imp_pc, args, git_log, bugs, printed, mails, lp_titles>>

\* The bug hook (cmd/update_bug.py): one bug task through process_bugtask.
VARIABLES
    ub_pc,              \* position of the hook
    ub_args,            \* the parsed command line
    task_prefix,        \* the prefix group of the reference's match
    changes_needed,     \* Task.changes_needed
    bugtask_status,     \* status of the bug task on Launchpad
    related_tasks,      \* bugtask.related_tasks, each with target name and status
    bug_tags,           \* tags of the bug on Launchpad
    applied             \* what the hook did to the bug, in order

bugVars == <<ub_pc, ub_args, task_prefix, changes_needed, bugtask_status,
             related_tasks, bug_tags, applied>>

\* The bug hook: the references find_bugs reads out of a commit log.
VARIABLES
    fb_pc,              \* position of the scan
    fb_git_log,         \* the commit log, token by token
    fb_pos,             \* where re.finditer goes on
    fb_matches          \* the matches so far: prefix and bug_number

refVars == <<fb_pc, fb_git_log, fb_pos, fb_matches>>

\* ACL reconciliation of one project, step by step.
VARIABLES
    acl_pc,             \* position of process_acls
    acl_x,              \* attempts the polling loop at hand has made
    acl_status,         \* the local 'status' of fetch_config
    acl_output,         \* the local 'output' of fetch_config
    project_config,     \* the lines of the ACL file
    acl_line,           \* position of create_groups_file in them
    uuids,              \* the dict of create_groups_file
    account_groups,     \* names in Gerrit's account_groups table
    pending,            \* groups created, not yet visible in the table
    created_groups,     \* gerrit.createGroup calls, in order
    groups_file,        \* lines of the groups file in the working tree
    acl_ops,            \* checkout, commit, push, cleanup: which ones ran
    acl_raised          \* the exception the try block ended with

aclVars == <<acl_pc, acl_x, acl_status, acl_output, project_config, acl_line,
             uuids, account_groups, pending, created_groups, groups_file,
             acl_ops, acl_raised>>

\* make_local_copy, called once.
VARIABLES
    lc_pc,              \* position of the caller
    lc_args,            \* the caller, project, project_list and upstream
    lc_tree,            \* repo_path: "absent", "stale" or "fresh"
    lc_ret              \* what make_local_copy did and returned

copyVars == <<lc_pc, lc_args, lc_tree, lc_ret>>

\* create_github_project, called once by manage_projects.
VARIABLES
    gh_pc,              \* position of main around the call
    gh_args,            \* options, defaults, description, homepage
    gh_managed,         \* the organization is one of get_user().get_orgs()
    gh_repo,            \* the repository on GitHub
    gh_teams,           \* names of the teams with access to the repository
    gh_org_teams,       \* names of the organization's teams
    gh_calls,           \* calls that change GitHub or Gerrit, as a set
    gh_created          \* the value create_github_project returned

githubVars == <<gh_pc, gh_args, gh_managed, gh_repo, gh_teams, gh_org_teams,
                gh_calls, gh_created>>

\* ---- variables of the remaining scripts
\* expire_old_reviews, one run.
VARIABLES
    er_pc,              \* position of main
    er_stdout,          \* the rows of the gerrit query, one per line
    er_line,            \* the line the for loop is at
    er_expired         \* revisions given to expire_patch_set, in order

expireVars == <<er_pc, er_stdout, er_line, er_expired>>

\* close_pull_requests, one run.
VARIABLES
    cp_pc,              \* position of main
    cp_sections,        \* registry.configs_list with what GitHub holds for each project
    cp_i,               \* the section the for loop is at
    cp_req,             \* the pull request the inner loop is at
    cp_calls           \* comments and closings sent to GitHub, in order

closeVars == <<cp_pc, cp_sections, cp_i, cp_req, cp_calls>>

\* register_zanata_projects, run twice against one Zanata server.
VARIABLES
    zn_pc,              \* position of main
    zn_run,             \* the first run of the script or the second
    zn_entries,         \* registry.configs_list with the answer of has_translations
    zn_i,               \* the entry the for loop is at
    zn_server,          \* what the Zanata server holds for each project
    zn_requests,        \* the requests of the latest register()
    zn_raised,          \* the latest register() raised ValueError
    zn_succeeded       \* projects for which a register() has returned

zanataVars == <<zn_pc, zn_run, zn_entries, zn_i, zn_server, zn_requests, zn_raised, zn_succeeded>>

\* run_command and the environment of the process.
VARIABLES
    os_environ,         \* os.environ of the process
    rc_count,           \* the commands the process has started
    rc_env,             \* the environment the latest command was started with
    rc_override,        \* the env argument of the latest call
    rc_latest          \* for each variable the value of the latest override that named it

environVars == <<os_environ, rc_count, rc_env, rc_override, rc_latest>>

\* find_bugs of the bug hook (cmd/update_bug.py).
VARIABLES
    ft_pc,              \* position of find_bugs
    ft_entry,           \* what the registry holds as the options of args.project
    ft_projects,        \* the answer of p.project_to_groups(project)
    ft_launchpad,       \* launchpad.bugs: the targets of the bug tasks of each bug
    ft_matches,         \* the matches of the regular expression in git_log
    ft_i,               \* the match the for loop is at
    bugtasks,           \* the dict bugtasks
    ft_returned        \* what find_bugs returned

taskVars == <<ft_pc, ft_entry, ft_projects, ft_launchpad, ft_matches, ft_i, bugtasks, ft_returned>>

finalVars == <<expireVars, closeVars, zanataVars, environVars, taskVars>>

earlyVars == <<syncVars, registryVars, welcomeVars, impactVars, bugVars, refVars,
              aclVars, copyVars, githubVars>>

offExpire == <<earlyVars, closeVars, zanataVars, environVars, taskVars>>
offClose == <<earlyVars, expireVars, zanataVars, environVars, taskVars>>
offZanata == <<earlyVars, expireVars, closeVars, environVars, taskVars>>
offEnviron == <<earlyVars, expireVars, closeVars, zanataVars, taskVars>>
offTasks == <<earlyVars, expireVars, closeVars, zanataVars, environVars>>
\* ---- end of the variables of the remaining scripts

\* The script families added after the first four.
laterVars == <<bugVars, refVars, aclVars, copyVars, githubVars, finalVars>>

\* What is not the bug task's, the reference scan's, the ACL reconciliation's.
offBug == <<syncVars, registryVars, welcomeVars, impactVars, refVars, aclVars,
           copyVars, githubVars,
            finalVars>>
offRefs == <<syncVars, registryVars, welcomeVars, impactVars, bugVars, aclVars,
            copyVars, githubVars,
            finalVars>>
offAcl == <<syncVars, registryVars, welcomeVars, impactVars, bugVars, refVars,
           copyVars, githubVars,
            finalVars>>
offCopy == <<syncVars, registryVars, welcomeVars, impactVars, bugVars, refVars,
            aclVars, githubVars,
            finalVars>>
offGithub == <<syncVars, registryVars, welcomeVars, impactVars, bugVars,
              refVars, aclVars, copyVars,
            finalVars>>

\* Everything that is not a synchronizer's.
offSync == <<registryVars, welcomeVars, impactVars, laterVars>>

\* ---- registry records the loop can meet
Names == <<"a", "b", "c", "d">>
ProjectId(i) == <<"org", "/", Names[i]>>
ProjectIds == {ProjectId(i) : i \in 1..NumProjects}
Upstream == <<"https://upstream.example.org/x.git">>
NoSection == [project |-> None, acl_config |-> None, upstream |-> None,
              options |-> {}]

\* The records position i of the registry file may hold: a retired record,
\* a record opting out of Gerrit, or a Gerrit project with any combination
\* of upstream, track-upstream and has-github.
RawEntries(i) ==
    {[project |-> ProjectId(i), acl_config |-> <<"/acls", "/", "retired.config">>,
      upstream |-> None, options |-> {}],
     [project |-> ProjectId(i), acl_config |-> None,
      upstream |-> None, options |-> {"no-gerrit"}]}
    \cup
    {[project |-> ProjectId(i), acl_config |-> None, upstream |-> u, options |-> o] :
        u \in {None, Upstream},
        o \in SUBSET {"track-upstream", "has-github"}}

\* ---- configuration read by main() through registry.get_defaults
GERRIT_HOST == "review.example.org"
GERRIT_PORT == "29418"
ACL_DIR == <<"/acls">>

\* remote_url = "ssh://%s:%s/%s" % (GERRIT_HOST, GERRIT_PORT, project)
remote_url(project) == <<"ssh://", GERRIT_HOST, ":", GERRIT_PORT, "/">> \o project
\* project_git = "%s.git" % project
project_git(project) == project \o <<".git">>
\* acl_config = section.get('acl-config', '%s.config' % join(ACL_DIR, project))
acl_config(sec) == GetAclConfig(sec, ACL_DIR \o <<"/">> \o sec.project \o <<".config">>)

\* ---- external commands
\* One command: what is run, its argument where a claim reads it, and
\* whether it is run with env=ssh_env (the GIT_SSH wrapper).
Ev(op, arg, env) == [op |-> op, arg |-> arg, env |-> env]
Git(op) == Ev(op, <<>>, FALSE)
GitSsh(op) == Ev(op, <<>>, TRUE)
\* A call of a client library (Gerrit, GitHub, the Gerrit database).
Api(op) == Ev(op, <<>>, FALSE)

\* What a helper hands back to main: the commands it ran, whether it raised
\* an Exception, and its return value.
Result(ev, exc, ret) == [ev |-> ev, exc |-> exc, ret |-> ret]

Unbound == <<"<unbound>">>
PushCopyHeads == <<"push %s +refs/copy/heads/*:refs/heads/*">>
PushMaster == <<"push %s HEAD:refs/heads/master">>

\* ------------------------------------------------- manage_projects.py
\* A create_gerrit_project that does not look at the project list.
create_gerrit_project_always(project, plist, ok) ==
    Result(<<Api("gerrit.createProject")>>, ~ok, ok)

\* create_gerrit_project; ok: gerrit.createProject did not raise.
create_gerrit_project(project, plist, ok) ==
    IF project \notin plist
    THEN Result(<<Api("gerrit.createProject")>>, ~ok, ok)
    ELSE Result(<<>>, FALSE, FALSE)

\* create_local_mirror; exists: os.path.exists(git_mirror_path),
\* ret: status of git --bare init.
create_local_mirror(exists, ret) ==
    IF exists THEN Result(<<>>, FALSE, FALSE)
    ELSE IF ret # 0
    THEN Result(<<Git("git --bare init"), Git("rm -rf git_mirror_path")>>, TRUE, FALSE)
    ELSE Result(<<Git("git --bare init"), Git("chown -R")>>, FALSE, FALSE)

\* A make_local_copy that clones from Gerrit whatever the project list says.
make_local_copy_from_gerrit(project, plist, upstream, io_ok) ==
    Result(<<GitSsh("git clone remote_url")>>
           \o (IF upstream # None THEN <<Git("remote add -f upstream")>> ELSE <<>>),
           FALSE, None)

\* manage_projects.make_local_copy; io_ok: .gitreview could be opened for
\* writing.  The return value is the push template.
make_local_copy(project, plist, upstream, io_ok) ==
    IF project \in plist
    THEN Result(<<GitSsh("git clone remote_url")>>
                \o (IF upstream # None THEN <<Git("remote add -f upstream")>> ELSE <<>>),
                FALSE, None)
    ELSE IF upstream # None
    THEN Result(<<GitSsh("git clone upstream"),
                  GitSsh("fetch origin +refs/heads/*:refs/copy/heads/*"),
                  Git("remote rename origin upstream"),
                  Git("remote add origin")>>, FALSE, PushCopyHeads)
    ELSE IF ~io_ok
    THEN Result(<<Git("git init"), Git("remote add origin")>>, TRUE, None)
    ELSE Result(<<Git("git init"), Git("remote add origin"),
                  Ev("write .gitreview",
                     <<GERRIT_HOST, GERRIT_PORT>> \o project_git(project), FALSE),
                  Git("add .gitreview"),
                  Git("commit -a -m'Added .gitreview'")>>, FALSE, PushMaster)

\* update_local_copy (the same code in both scripts); has_upstream_remote:
\* 'upstream' is in the output of git remote.
update_local_copy(track_upstream, has_upstream_remote) ==
    Result(<<Git("clean -fdx"), Git("remote")>>
           \o (IF track_upstream
               THEN <<IF has_upstream_remote THEN Git("remote set-url upstream")
                                             ELSE Git("remote add upstream"),
                      GitSsh("remote update --prune")>>
               ELSE IF has_upstream_remote THEN <<Git("remote rm upstream")>> ELSE <<>>)
           \o <<Git("checkout -B master origin/master")>>,
           FALSE, None)

\* push_to_gerrit: the push of the template, then the tags.  A template of
\* None makes "push_string % remote_url" raise TypeError inside the try
\* block, which logs it and returns.
push_to_gerrit(project, pstring) ==
    IF pstring = None THEN Result(<<>>, FALSE, None)
    ELSE Result(<<Ev("push", pstring \o remote_url(project), TRUE),
                  Ev("push --tags", remote_url(project), TRUE)>>, FALSE, None)

\* sync_upstream (the same code in both scripts).
sync_upstream ==
    Result(<<GitSsh("remote update upstream --prune"), Git("branch -a"),
             Git("checkout -B local_branch branch"),
             Ev("push origin refs/heads/*:refs/heads/*", <<>>, TRUE),
             Ev("push origin --tags", <<>>, TRUE)>>, FALSE, None)

\* fetch_config; e: "ok", or the poll that gave up ("fetch", "find"), or a
\* failed checkout of the config branch ("checkout").
fetch_config(e) ==
    CASE e = "fetch" ->
           Result(<<GitSsh("fetch +refs/meta/config")>>, TRUE, None)
      [] e = "find" ->
           Result(<<GitSsh("fetch +refs/meta/config"), GitSsh("remote update --prune"),
                    GitSsh("ls-files project.config")>>, TRUE, None)
      [] OTHER ->
           Result(<<GitSsh("fetch +refs/meta/config"), GitSsh("remote update --prune"),
                    GitSsh("ls-files project.config"), Git("checkout -B config")>>,
                  e = "checkout", None)

\* copy_acl_config; e: "missing" (the ACL file vanished), "cp" (cp failed),
\* "nodiff" or "diff" (git diff --quiet).  Returns whether there is a diff.
copy_acl_config(e) ==
    CASE e = "missing" -> Result(<<>>, TRUE, FALSE)
      [] e = "cp" -> Result(<<Git("cp acl_config project.config")>>, TRUE, FALSE)
      [] OTHER -> Result(<<Git("cp acl_config project.config"), Git("diff --quiet")>>,
                         FALSE, e = "diff")

\* create_groups_file; e: "ok", "nouuid" (a group got no UUID) or "add"
\* (git add groups failed).
create_groups_file(e) ==
    CASE e = "nouuid" -> Result(<<Api("get_group_uuid")>>, TRUE, None)
      [] OTHER -> Result(<<Api("get_group_uuid"), Git("add groups")>>, e = "add", None)

\* push_acl_config; e: "ok", "commit" or "push" (the command that failed).
\* It never raises: a failure is logged and False returned.
push_acl_config(e) ==
    IF e = "commit"
    THEN Result(<<Git("commit -a -m'Update project config.'")>>, FALSE, FALSE)
    ELSE Result(<<Git("commit -a -m'Update project config.'"),
                  GitSsh("push HEAD:refs/meta/config")>>, FALSE, e = "ok")

\* The finally block of process_acls.
acl_cleanup == <<Git("reset --hard"), Git("checkout master"), Git("branch -D config")>>

\* The try block of process_acls: the helpers in order, stopping at the
\* first that raises and at the early return when nothing was copied.
acl_try(e) ==
    LET f == fetch_config(e.fetch)
        c == copy_acl_config(e.copy)
        g == create_groups_file(e.groups)
        p == push_acl_config(e.push)
    IN  IF f.exc THEN f.ev
        ELSE IF c.exc \/ ~c.ret THEN f.ev \o c.ev
        ELSE IF g.exc THEN f.ev \o c.ev \o g.ev
        ELSE f.ev \o c.ev \o g.ev \o p.ev

\* The try block of process_acls raises: one of its helpers did.
acl_raises(e) ==
    LET f == fetch_config(e.fetch)
        c == copy_acl_config(e.copy)
        g == create_groups_file(e.groups)
    IN  f.exc \/ c.exc \/ (c.ret /\ g.exc)

\* process_acls without its except clause: try and finally alone.
process_acls_uncaught(isfile, e) ==
    IF ~isfile THEN Result(<<>>, FALSE, None)
    ELSE Result(acl_try(e) \o acl_cleanup, acl_raises(e), None)

\* process_acls with the cleanup after the try block instead of in a
\* finally clause: the early return leaves without it.
process_acls_no_finally(isfile, e) ==
    IF ~isfile THEN Result(<<>>, FALSE, None)
    ELSE IF e.fetch = "ok" /\ e.copy = "nodiff"
    THEN Result(acl_try(e), FALSE, None)
    ELSE Result(acl_try(e) \o acl_cleanup, FALSE, None)

\* process_acls; isfile: os.path.isfile(acl_config).  Exceptions of the try
\* block are logged by its except clause; the finally block runs either way.
process_acls(isfile, e) ==
    IF ~isfile THEN Result(<<>>, FALSE, None)
    ELSE Result(acl_try(e) \o acl_cleanup, FALSE, None)

AclEnv == [fetch : {"ok", "fetch", "find", "checkout"},
           copy : {"missing", "cp", "nodiff", "diff"},
           groups : {"ok", "nouuid", "add"},
           push : {"ok", "commit", "push"}]

\* create_github_project; e: "raise" (the API raised), "unmanaged" (the
\* organization is not ours), "exists" (get_repo found it), "created", or
\* "noteam" (created, but there is no 'gerrit' team: KeyError).
create_github_project(e) ==
    CASE e = "raise" -> Result(<<Api("github.get_orgs")>>, TRUE, FALSE)
      [] e = "unmanaged" -> Result(<<Api("github.get_orgs")>>, FALSE, FALSE)
      [] e = "exists" ->
           Result(<<Api("github.get_orgs"), Api("github.get_repo")>>, FALSE, FALSE)
      [] e = "noteam" ->
           Result(<<Api("github.get_orgs"), Api("github.get_repo"),
                    Api("github.create_repo"), Api("github.repo.edit"),
                    Api("github.get_teams")>>, TRUE, FALSE)
      [] OTHER ->
           Result(<<Api("github.get_orgs"), Api("github.get_repo"),
                    Api("github.create_repo"), Api("github.repo.edit"),
                    Api("github.get_teams"), Api("github.add_to_repos")>>, FALSE, TRUE)

GithubEnv == {"raise", "unmanaged", "exists", "noteam", "created"}

\* ------------------------------------------------------------ utils.py
\* utils.make_local_copy, used by track_upstream; clone_ok: the clone from
\* Gerrit did not raise (when it raises, the code falls through to the
\* upstream and init strategies).
u_make_local_copy(project, plist, upstream, clone_ok, io_ok) ==
    IF project \in plist /\ clone_ok
    THEN Result(<<GitSsh("git clone remote_url")>>
                \o (IF upstream # None THEN <<Git("remote add -f upstream")>> ELSE <<>>),
                FALSE, None)
    ELSE LET tried == IF project \in plist THEN <<GitSsh("git clone remote_url")>>
                      ELSE <<>>
             rest == make_local_copy(project, {}, upstream, io_ok)
         IN  Result(tried \o rest.ev, rest.exc, rest.ret)

\* utils.fsck_repo / track_upstream.fsck_repo: raises unless git fsck --full
\* returned 0 and did not print zeroPaddedFilemode.
FsckClean == <<"rc=0", "clean">>
FsckOutput(rc, zero_padded) ==
    <<IF rc = 0 THEN "rc=0" ELSE "rc=1",
      IF zero_padded THEN "zeroPaddedFilemode" ELSE "clean">>
fsck_repo(rc, zero_padded) ==
    Result(<<Ev("fsck --full", FsckOutput(rc, zero_padded), FALSE)>>,
           rc # 0 \/ zero_padded, None)

\* --------------------------------------------------------------- main()
BodyPcs == {"create_gerrit_project", "create_local_mirror", "local_copy",
            "push_to_gerrit", "sync_upstream", "process_acls", "github",
            "tu_local_copy", "tu_fsck", "tu_sync_upstream"}

\* An entry of the progress cache, as far as any script reads or the
\* synchronizer is said to write it: whether the project has an entry, and
\* the values of its keys 'project-created' and 'pushed-to-gerrit'
\* ("nokey": the entry does not hold the key).
CacheEntry(exists, created, pushed) ==
    [exists |-> exists, created |-> created, pushed |-> pushed]
CacheAbsent == CacheEntry(FALSE, "nokey", "nokey")
CacheEmpty == CacheEntry(TRUE, "nokey", "nokey")
CacheCreated == CacheEntry(TRUE, "true", "false")
CachePushed == CacheEntry(TRUE, "true", "true")
CacheValues == {CacheAbsent, CacheEmpty, CacheCreated, CachePushed}

InitSync ==
    /\ script \in {"manage_projects", "track_upstream"}
    /\ pc = "main"
    /\ idx = 1
    /\ section = NoSection
    /\ project_list = {}
    /\ ssh_wrapper = "none"
    /\ unlinks = 0
    /\ project_created = FALSE
    /\ push_string = Unbound
    /\ log = <<>>
    /\ failed_before = FALSE
    /\ interrupted = FALSE
    /\ args_projects \in {{}, {ProjectId(1)}}
    \* manage_projects reads the two defaults and never opens the cache file
    \* (absent, or left complete by an earlier synchronization);
    \* track_upstream reads the cache and neither default.
    /\ IF script = "manage_projects"
       THEN /\ GERRIT_REPLICATE \in BOOLEAN
            /\ default_has_github \in BOOLEAN
            /\ project_cache \in {[p \in ProjectIds |-> v] : v \in {CacheAbsent, CachePushed}}
       ELSE /\ GERRIT_REPLICATE = TRUE
            /\ default_has_github = TRUE
            /\ project_cache \in [ProjectIds -> CacheValues]
    /\ cache_at_start = project_cache
    /\ work_dirs = {}

\* main() up to the loop: project_list = gerrit.listProjects() and
\* ssh_env = make_ssh_wrapper(...).
Start ==
    /\ pc = "main"
    /\ \E pl \in SUBSET ProjectIds : project_list' = pl
    /\ ssh_wrapper' = "exists"
    /\ pc' = "loop"
    /\ UNCHANGED <<offSync, cache_at_start, work_dirs, script, idx, section, unlinks, project_created, push_string,
                   log, failed_before, interrupted, args_projects,
                   GERRIT_REPLICATE, default_has_github, project_cache>>

\* "continue": on to the next record.  The log of the iteration ends here.
Continue ==
    /\ pc' = "loop"
    /\ idx' = idx + 1
    /\ log' = <<>>

\* Step to pc' having run the commands ev.
Step(ev, next) ==
    /\ log' = log \o ev
    /\ pc' = next
    /\ idx' = idx

\* for section in registry.configs_list: the next record that is not
\* retired and passes the command line's filter.
LoopNext ==
    /\ pc = "loop"
    /\ idx <= NumProjects
    /\ \E entry \in RawEntries(idx) :
         IF is_retired(entry)
              \/ (args_projects # {} /\ entry.project \notin args_projects)
         THEN Continue /\ UNCHANGED section
         ELSE /\ section' = entry
              /\ log' = <<>>
              /\ pc' = "begin"
              /\ idx' = idx
    /\ UNCHANGED <<offSync, cache_at_start, work_dirs, script, project_list, ssh_wrapper, unlinks, project_created,
                   push_string, failed_before, interrupted, args_projects,
                   GERRIT_REPLICATE, default_has_github, project_cache>>

\* The loop is exhausted.
LoopEnd ==
    /\ pc = "loop"
    /\ idx > NumProjects
    /\ pc' = "finally"
    /\ UNCHANGED <<offSync, cache_at_start, work_dirs, script, idx, section, project_list, ssh_wrapper, unlinks,
                   project_created, push_string, log, failed_before,
                   interrupted, args_projects, GERRIT_REPLICATE,
                   default_has_github, project_cache>>

\* A handler that leaves the loop instead of continuing.
ExceptHandler_break ==
    /\ pc = "except"
    /\ pc' = "finally"
    /\ log' = <<>>
    /\ failed_before' = TRUE
    /\ UNCHANGED <<offSync, cache_at_start, work_dirs, script, idx, section, project_list,
                   ssh_wrapper, unlinks, project_created, push_string,
                   interrupted, args_projects, GERRIT_REPLICATE,
                   default_has_github, project_cache>>

\* except Exception: log.exception(...); continue
ExceptHandler ==
    /\ pc = "except"
    /\ Continue
    /\ failed_before' = TRUE
    /\ UNCHANGED <<offSync, cache_at_start, work_dirs, script, section, project_list, ssh_wrapper, unlinks,
                   project_created, push_string, interrupted,
                   args_projects, GERRIT_REPLICATE, default_has_github,
                   project_cache>>

\* The end of the loop body.
EndBody ==
    /\ pc = "end"
    /\ Continue
    /\ UNCHANGED <<offSync, cache_at_start, work_dirs, script, section, project_list, ssh_wrapper, unlinks,
                   project_created, push_string, failed_before,
                   interrupted, args_projects, GERRIT_REPLICATE,
                   default_has_github, project_cache>>

\* The unlink placed after the loop without try/finally: an exception that
\* leaves the loop passes it by.
Finally_after_loop ==
    /\ pc = "finally"
    /\ ssh_wrapper' = IF interrupted THEN ssh_wrapper ELSE "deleted"
    /\ unlinks' = IF interrupted THEN unlinks ELSE unlinks + 1
    /\ pc' = IF interrupted THEN "raised" ELSE "done"
    /\ log' = <<>>
    /\ UNCHANGED <<offSync, cache_at_start, work_dirs, script, idx, section, project_list,
                   project_created, push_string, failed_before, interrupted,
                   args_projects, GERRIT_REPLICATE, default_has_github,
                   project_cache>>

\* finally: os.unlink(ssh_env['GIT_SSH'])
Finally ==
    /\ pc = "finally"
    /\ ssh_wrapper' = "deleted"
    /\ unlinks' = unlinks + 1
    /\ pc' = IF interrupted THEN "raised" ELSE "done"
    /\ log' = <<>>
    /\ UNCHANGED <<offSync, cache_at_start, work_dirs, script, idx, section, project_list, project_created,
                   push_string, failed_before, interrupted,
                   args_projects, GERRIT_REPLICATE, default_has_github,
                   project_cache>>

\* An exception that "except Exception" does not catch (KeyboardInterrupt,
\* SystemExit) arrives while a step of the body runs: it leaves the loop
\* through the outer finally.
Interrupt ==
    /\ pc \in BodyPcs
    /\ interrupted' = TRUE
    /\ pc' = "finally"
    /\ UNCHANGED <<offSync, cache_at_start, work_dirs, script, idx, section, project_list, ssh_wrapper, unlinks,
                   project_created, push_string, log, failed_before,
                   args_projects, GERRIT_REPLICATE, default_has_github,
                   project_cache>>

\* What no step of the loop body changes.
bodyFrame == <<offSync, cache_at_start, script, section, project_list, ssh_wrapper, unlinks,
               failed_before, interrupted, args_projects, GERRIT_REPLICATE,
               default_has_github>>

\* ---- the body of manage_projects.main
\* "Figure out all of the options"; a no-gerrit project is left alone.
mp_options ==
    /\ script = "manage_projects"
    /\ pc = "begin"
    /\ IF "no-gerrit" \in section.options
       THEN Continue
       ELSE Step(<<>>, "create_gerrit_project")
    /\ UNCHANGED <<bodyFrame, work_dirs, project_created, push_string, project_cache>>

mp_create_gerrit_project ==
    /\ pc = "create_gerrit_project"
    /\ \E ok \in BOOLEAN :
         LET r == create_gerrit_project(section.project, project_list, ok)
         IN  IF r.exc
             THEN Step(r.ev, "except") /\ UNCHANGED project_created
             ELSE Step(r.ev, "create_local_mirror") /\ project_created' = r.ret
    /\ UNCHANGED <<bodyFrame, work_dirs, push_string, project_cache>>

mp_create_local_mirror ==
    /\ pc = "create_local_mirror"
    /\ \E exists \in BOOLEAN, ret \in {0, 1} :
         LET r == create_local_mirror(exists, ret)
         IN  Step(r.ev, IF r.exc THEN "except" ELSE "local_copy")
    /\ UNCHANGED <<bodyFrame, work_dirs, project_created, push_string, project_cache>>

\* if not os.path.exists(repo_path) or project_created: make_local_copy,
\* else update_local_copy.
mp_local_copy ==
    /\ pc = "local_copy"
    /\ \E exists \in BOOLEAN, io_ok \in BOOLEAN, has_remote \in BOOLEAN :
         IF ~exists \/ project_created
         THEN LET r == make_local_copy(section.project, project_list,
                                       section.upstream, io_ok)
              IN  IF r.exc
                  THEN Step(r.ev, "except") /\ UNCHANGED push_string
                  ELSE Step(r.ev, "push_to_gerrit") /\ push_string' = r.ret
         ELSE LET r == update_local_copy("track-upstream" \in section.options,
                                         has_remote)
              IN  Step(r.ev, "push_to_gerrit") /\ UNCHANGED push_string
    /\ work_dirs' = work_dirs \cup {section.project}
    /\ UNCHANGED <<bodyFrame, project_created, project_cache>>

\* if project_created: push_to_gerrit(...), then gerrit.replicate(project)
\* if GERRIT_REPLICATE; replicate_ok: gerrit.replicate did not raise.
mp_push_to_gerrit ==
    /\ pc = "push_to_gerrit"
    /\ IF ~project_created THEN Step(<<>>, "sync_upstream")
       ELSE IF push_string = Unbound THEN Step(<<>>, "except")
       ELSE LET r == push_to_gerrit(section.project, push_string)
            IN  IF GERRIT_REPLICATE
                THEN \E replicate_ok \in BOOLEAN :
                       Step(r.ev \o <<Api("gerrit.replicate")>>,
                            IF replicate_ok THEN "sync_upstream" ELSE "except")
                ELSE Step(r.ev, "sync_upstream")
    /\ UNCHANGED <<bodyFrame, work_dirs, project_created, push_string, project_cache>>

mp_sync_upstream ==
    /\ pc = "sync_upstream"
    /\ IF "track-upstream" \in section.options
       THEN Step(sync_upstream.ev, "process_acls")
       ELSE Step(<<>>, "process_acls")
    /\ UNCHANGED <<bodyFrame, work_dirs, project_created, push_string, project_cache>>

\* if acl_config: process_acls(...)
mp_process_acls ==
    /\ pc = "process_acls"
    /\ IF acl_config(section) = <<>> THEN Step(<<>>, "github")
       ELSE \E isfile \in BOOLEAN, e \in AclEnv :
              LET r == process_acls(isfile, e)
              IN  Step(r.ev, IF r.exc THEN "except" ELSE "github")
    /\ UNCHANGED <<bodyFrame, work_dirs, project_created, push_string, project_cache>>

\* The uncaught exception arrives inside the try block of process_acls:
\* its finally block runs, then the exception goes on out of the loop.
InterruptInAcls ==
    /\ pc = "process_acls"
    /\ acl_config(section) # <<>>
    /\ \E e \in AclEnv : log' = log \o acl_try(e) \o acl_cleanup
    /\ interrupted' = TRUE
    /\ pc' = "finally"
    /\ UNCHANGED <<offSync, cache_at_start, work_dirs, script, idx, section, project_list, ssh_wrapper, unlinks,
                   project_created, push_string, failed_before, args_projects,
                   GERRIT_REPLICATE, default_has_github, project_cache>>

\* if 'has-github' in options or default_has_github: create_github_project,
\* then gerrit.replicate(project) if it created the repository.
mp_github ==
    /\ pc = "github"
    /\ IF "has-github" \in section.options \/ default_has_github
       THEN \E e \in GithubEnv, replicate_ok \in BOOLEAN :
              LET r == create_github_project(e)
              IN  IF r.exc THEN Step(r.ev, "except")
                  ELSE IF r.ret /\ GERRIT_REPLICATE
                  THEN Step(r.ev \o <<Api("gerrit.replicate")>>,
                            IF replicate_ok THEN "end" ELSE "except")
                  ELSE Step(r.ev, "end")
       ELSE Step(<<>>, "end")
    /\ UNCHANGED <<bodyFrame, work_dirs, project_created, push_string, project_cache>>

\* ---- the body of track_upstream.main
\* A body that goes on when the cache has no 'pushed-to-gerrit' for the
\* project.
tu_options_unchecked ==
    /\ script = "track_upstream"
    /\ pc = "begin"
    /\ IF "track-upstream" \notin section.options \/ "no-gerrit" \in section.options
       THEN Continue /\ UNCHANGED project_cache
       ELSE LET entry == project_cache[section.project]
            IN  CASE entry.pushed = "false" -> Continue /\ UNCHANGED project_cache
                  [] OTHER -> Step(<<>>, "tu_local_copy") /\ UNCHANGED project_cache
    /\ UNCHANGED <<bodyFrame, work_dirs, project_created, push_string>>

\* The options, then the progress cache: setdefault(project, {}) followed by
\* the lookup of 'pushed-to-gerrit', a KeyError when the entry has no such
\* key.
tu_options ==
    /\ script = "track_upstream"
    /\ pc = "begin"
    /\ IF "track-upstream" \notin section.options \/ "no-gerrit" \in section.options
       THEN Continue /\ UNCHANGED project_cache
       ELSE LET entry == project_cache[section.project]
            IN  CASE entry.pushed = "nokey" ->
                       /\ project_cache' =
                              [project_cache EXCEPT ![section.project].exists = TRUE]
                       /\ Step(<<>>, "except")
                  [] entry.pushed = "false" -> Continue /\ UNCHANGED project_cache
                  [] OTHER -> Step(<<>>, "tu_local_copy") /\ UNCHANGED project_cache
    /\ UNCHANGED <<bodyFrame, work_dirs, project_created, push_string>>

tu_local_copy ==
    /\ pc = "tu_local_copy"
    /\ \E exists \in BOOLEAN, clone_ok \in BOOLEAN, io_ok \in BOOLEAN,
          has_remote \in BOOLEAN :
         LET r == IF ~exists
                  THEN u_make_local_copy(section.project, project_list,
                                         section.upstream, clone_ok, io_ok)
                  ELSE update_local_copy(TRUE, has_remote)
         IN  Step(r.ev, IF r.exc THEN "except" ELSE "tu_fsck")
    /\ work_dirs' = work_dirs \cup {section.project}
    /\ UNCHANGED <<bodyFrame, project_created, push_string, project_cache>>

tu_fsck ==
    /\ pc = "tu_fsck"
    /\ \E rc \in {0, 1}, zero_padded \in BOOLEAN :
         LET r == fsck_repo(rc, zero_padded)
         IN  Step(r.ev, IF r.exc THEN "except" ELSE "tu_sync_upstream")
    /\ UNCHANGED <<bodyFrame, work_dirs, project_created, push_string, project_cache>>

tu_sync_upstream ==
    /\ pc = "tu_sync_upstream"
    /\ Step(sync_upstream.ev, "end")
    /\ UNCHANGED <<bodyFrame, work_dirs, project_created, push_string, project_cache>>

NextSync ==
    \/ Start \/ LoopNext \/ LoopEnd \/ ExceptHandler \/ EndBody \/ Finally
    \/ Interrupt \/ InterruptInAcls
    \/ mp_options \/ mp_create_gerrit_project \/ mp_create_local_mirror
    \/ mp_local_copy \/ mp_push_to_gerrit \/ mp_sync_upstream
    \/ mp_process_acls \/ mp_github
    \/ tu_options \/ tu_local_copy \/ tu_fsck \/ tu_sync_upstream

\* =========================================================================
\*  The registry loader: utils.ProjectsRegistry
\* =========================================================================
\* Largest number of records in one document of projects.yaml.
MaxRecords == 2

\* A Python value as far as get_defaults tells values apart: its type and
\* its text.
PyNone == <<"NoneType", "None">>
PyTrue == <<"bool", "True">>
PyFalse == <<"bool", "False">>
PyStr(text) == <<"str", text>>
\* What a mapping holds for a key it does not have.
Missing == <<"missing", "">>

OptionKeys == {"has-github", "gerrit-host"}
NoOpts == [k \in OptionKeys |-> Missing]
OptsChoices ==
    {NoOpts,
     [k \in OptionKeys |-> IF k = "has-github" THEN PyFalse
                           ELSE PyStr("review.example.org")],
     [k \in OptionKeys |-> IF k = "has-github" THEN Missing
                           ELSE PyStr("review.example.org")]}

\* PROJECTS_INI does not exist.
NoIni == [k \in OptionKeys |-> <<"nofile", "">>]
\* The [projects] section of the INI file: every stored value is a string.
IniChoices ==
    {NoIni,
     [k \in OptionKeys |-> IF k = "has-github" THEN PyStr("false")
                           ELSE PyStr("review.example.org")],
     [k \in OptionKeys |-> IF k = "has-github" THEN PyStr("Yes") ELSE Missing],
     [k \in OptionKeys |-> IF k = "has-github" THEN PyStr("maybe") ELSE Missing]}

\* str.lower() on the strings of the model.
Lower(text) ==
    CASE text = "Yes" -> "yes"
      [] text = "True" -> "true"
      [] text = "DocImpact" -> "docimpact"
      [] text = "DOCIMPACT" -> "docimpact"
      [] text = "SecurityImpact" -> "securityimpact"
      [] text = "Bug" -> "bug"
      [] text = "LP" -> "lp"
      [] text = "Closes" -> "closes"
      [] text = "Fixes" -> "fixes"
      [] text = "Resolves" -> "resolves"
      [] text = "Partial" -> "partial"
      [] text = "Related" -> "related"
      [] text = "Impacts" -> "impacts"
      [] text = "Affects" -> "affects"
      [] text = "WIP" -> "wip"
      [] text = "Title" -> "title"
      [] OTHER -> text

\* ConfigParser.getboolean: the stored string, lower-cased, looked up in
\* _boolean_states; ValueError for any other string.
getboolean(stored) ==
    LET v == Lower(stored[2])
    IN  IF v \in {"1", "yes", "true", "on"} THEN Result(<<>>, FALSE, PyTrue)
        ELSE IF v \in {"0", "no", "false", "off"} THEN Result(<<>>, FALSE, PyFalse)
        ELSE Result(<<>>, TRUE, PyNone)

\* ---- the files
RegIds == {<<"solo">>, <<"org", "/", "a">>, <<"org", "-attic", "/", "b">>,
           <<"org", "/", "b", "-attic">>, <<"org", "/", "sub", "/", "c">>}
RegAcls == {None, <<"/acls", "/", "retired.config">>, <<"retired.config">>}
RegRecords == [project : RegIds, acl_config : RegAcls, opts : {NoOpts}]
\* A document that lists projects.
Docs == UNION {[1..k -> RegRecords] : k \in 0..MaxRecords}
\* The first mapping of a document with the option keys o.
WithHead(d, o) == IF d = <<>> THEN d ELSE [d EXCEPT ![1].opts = o]
\* A document of defaults: empty, or one mapping of options.
DefaultsDocs ==
    {<<>>} \cup {<<[project |-> None, acl_config |-> None, opts |-> o]>> :
                    o \in OptsChoices}
DefaultArgs == {PyNone, PyTrue, PyFalse, PyStr("29418")}
NoCall == [item |-> "", default |-> PyNone]

InitRegistry ==
    /\ single_doc \in BOOLEAN
    /\ yaml_doc \in
         IF single_doc
         THEN {<<WithHead(d, o)>> : d \in Docs, o \in OptsChoices}
         ELSE {<<h, d>> : h \in DefaultsDocs, d \in Docs}
              \cup {<<h>> : h \in DefaultsDocs}
    /\ ini \in IniChoices
    /\ reg_pc = "new"
    /\ self_configs_list = <<>>
    /\ self_defaults = NoOpts
    /\ reg_call = NoCall
    /\ reg_ret = PyNone
    /\ listed = <<>>
    /\ acted = <<>>

\* ProjectsRegistry.__init__ and _parse_file.  yaml_doc[1] of a file with one
\* document raises IndexError out of the constructor; yaml_doc[0][0] of an
\* empty first document raises the IndexError that _parse_file passes over.
ProjectsRegistry_init ==
    /\ reg_pc = "new"
    /\ IF ~single_doc /\ Len(yaml_doc) < 2
       THEN /\ reg_pc' = "init raised"
            /\ UNCHANGED <<self_configs_list, self_defaults>>
       ELSE /\ reg_pc' = "loaded"
            /\ self_configs_list' = IF single_doc THEN yaml_doc[1] ELSE yaml_doc[2]
            /\ self_defaults' = IF ini # NoIni THEN ini
                                ELSE IF yaml_doc[1] = <<>> THEN NoOpts
                                ELSE yaml_doc[1][1].opts
    /\ UNCHANGED <<yaml_doc, single_doc, ini, reg_call, reg_ret, listed, acted>>
    /\ UNCHANGED <<syncVars, welcomeVars, impactVars, laterVars>>

\* get_defaults without the boolean coercion of INI values.
get_defaults_raw(item, default) ==
    Result(<<>>, FALSE,
           IF self_defaults[item] # Missing THEN self_defaults[item] ELSE default)

\* ProjectsRegistry.get_defaults
get_defaults(item, default) ==
    IF ini # NoIni
    THEN IF self_defaults[item] # Missing
         THEN IF default[1] = "bool"
              THEN getboolean(self_defaults[item])
              ELSE Result(<<>>, FALSE, self_defaults[item])
         ELSE Result(<<>>, FALSE, default)
    ELSE Result(<<>>, FALSE,
                IF self_defaults[item] # Missing THEN self_defaults[item]
                ELSE default)

\* A script reads one default.
GetDefaults ==
    /\ reg_pc = "loaded"
    /\ \E item \in OptionKeys, default \in DefaultArgs :
         LET r == get_defaults(item, default)
         IN  /\ reg_call' = [item |-> item, default |-> default]
             /\ reg_ret' = r.ret
             /\ reg_pc' = IF r.exc THEN "get raised" ELSE "got"
    /\ UNCHANGED <<yaml_doc, single_doc, ini, self_configs_list, self_defaults,
                   listed, acted>>
    /\ UNCHANGED <<syncVars, welcomeVars, impactVars, laterVars>>

not_retired(entry) == ~is_retired(entry)

\* ProjectsRegistry.configs_list: the comprehension calls is_retired on the
\* records in order; the first call that raises ends it.
configs_list ==
    IF \E i \in 1..Len(self_configs_list) : is_retired_raises(self_configs_list[i])
    THEN Result(<<>>, TRUE, <<>>)
    ELSE Result(<<>>, FALSE, SelectSeq(self_configs_list, not_retired))

\* for entry in registry.configs_list: the access to the property.
ConfigsList ==
    /\ reg_pc = "loaded"
    /\ LET r == configs_list
       IN  /\ listed' = r.ret
           /\ reg_pc' = IF r.exc THEN "list raised" ELSE "listed"
    /\ UNCHANGED <<yaml_doc, single_doc, ini, self_configs_list, self_defaults,
                   reg_call, reg_ret, acted>>
    /\ UNCHANGED <<syncVars, welcomeVars, impactVars, laterVars>>

\* One iteration of the script's loop over the list.
Iterate ==
    /\ reg_pc = "listed"
    /\ Len(acted) < Len(listed)
    /\ acted' = Append(acted, listed[Len(acted) + 1])
    /\ UNCHANGED <<yaml_doc, single_doc, ini, reg_pc, self_configs_list,
                   self_defaults, reg_call, reg_ret, listed>>
    /\ UNCHANGED <<syncVars, welcomeVars, impactVars, laterVars>>

NextRegistry == ProjectsRegistry_init \/ GetDefaults \/ ConfigsList \/ Iterate

\* =========================================================================
\*  The welcome-message hook: cmd/welcome_message.py
\* =========================================================================
\* Largest change number and patch-set number in the review database.
MaxChange == 2
MaxPatchSet == 2

Accounts == {1, 2}
PatchSetRows == [change_id : 1..MaxChange, patch_set_id : 1..MaxPatchSet,
                 uploader_account_id : Accounts]
Jane == <<"jane@example.org">>
Bob == <<"bob@example.org">>
ExternalId(email, account) == [email_address |-> email, account_id |-> account]
ExternalIdChoices ==
    {{}, {ExternalId(Jane, 1)}, {ExternalId(Jane, 1), ExternalId(Bob, 2)},
     {ExternalId(Jane, 1), ExternalId(Jane, 2)}}
Uploaders ==
    {<<"Jane Doe ", "(", "jane@example.org", ")">>,
     <<"Jane ", "(", "jd", ")", " ", "(", "jane@example.org", ")">>,
     <<"Bob ", "(", "bob@example.org", ")">>,
     <<"Jane Doe">>}

InitWelcome ==
    /\ wel_pc = "main"
    /\ uploader \in Uploaders
    /\ patchset \in {"1", "2"}
    /\ wel_dryrun \in BOOLEAN
    /\ patch_sets \in SUBSET PatchSetRows
    /\ account_external_ids \in ExternalIdChoices
    /\ newbie = FALSE
    /\ posted = 0

\* s.rindex(tok): the last position of tok; ValueError when there is none.
rindex(s, tok) ==
    CHOOSE i \in 1..Len(s) : s[i] = tok /\ \A j \in (i + 1)..Len(s) : s[j] # tok

\* SELECT COUNT(DISTINCT p.change_id + p.patch_set_id)
\* FROM patch_sets p, account_external_ids a
\* WHERE a.email_address = searchkey AND a.account_id = p.uploader_account_id
count_distinct(searchkey) ==
    Cardinality({p.change_id + p.patch_set_id :
                    p \in {q \in patch_sets :
                             \E a \in account_external_ids :
                                /\ a.email_address = searchkey
                                /\ a.account_id = q.uploader_account_id}})

\* is_newbie: the e-mail is what stands between the last "(" and the last
\* character of the uploader string.
is_newbie(u) ==
    IF ~Contains(u, "(") THEN FALSE
    ELSE LET searchkey == SubSeq(u, rindex(u, "(") + 1, Len(u) - 1)
         IN  count_distinct(searchkey) = 1

\* main: the call of is_newbie(args.uploader)
wm_is_newbie ==
    /\ wel_pc = "main"
    /\ newbie' = is_newbie(uploader)
    /\ wel_pc' = "checked"
    /\ UNCHANGED <<uploader, patchset, wel_dryrun, patch_sets,
                   account_external_ids, posted>>
    /\ UNCHANGED <<syncVars, registryVars, impactVars, laterVars>>

\* main: ... and args.patchset == '1' and not args.dryrun: post_message(...)
wm_post_message ==
    /\ wel_pc = "checked"
    /\ posted' = IF newbie /\ patchset = "1" /\ ~wel_dryrun THEN posted + 1
                 ELSE posted
    /\ wel_pc' = "done"
    /\ UNCHANGED <<uploader, patchset, wel_dryrun, patch_sets,
                   account_external_ids, newbie>>
    /\ UNCHANGED <<syncVars, registryVars, impactVars, laterVars>>

NextWelcome == wm_is_newbie \/ wm_post_message

\* =========================================================================
\*  The impact hook: cmd/notify_impact.py
\* =========================================================================
DOC_TAG == <<"doc">>

ImpactProjects ==
    {<<"org", "/", "name">>, <<"org", "/", "openstack-manuals">>,
     <<"org", "/", "name", "/">>, <<"name">>, <<"org", "/", "sub", "/", "name">>}
\* git log --no-merges: the header of the commit and its title, then the
\* lines of the message where a tag can stand; empty when git failed.
GitLogs ==
    {<<>>} \cup
    {<<"commit 1f", "Author: A", "Date: D", "", "    title">> \o body :
        body \in {<<>>, <<"DocImpact">>, <<"docimpact">>, <<"SecurityImpact">>,
                  <<"SecurityImpact", "DocImpact">>}}
NoArgs == [hook |-> "", impact |-> "", project |-> <<>>, dryrun |-> FALSE]

InitImpact ==
    /\ imp_pc = "main"
    /\ args \in [hook : {"change-merged", "patchset-created"},
                 impact : {"DocImpact", "DOCIMPACT", "SecurityImpact"},
                 project : ImpactProjects,
                 dryrun : BOOLEAN]
    /\ git_log \in GitLogs
    /\ bugs = <<>>
    /\ printed = 0
    /\ mails = 0
    /\ lp_titles \in SUBSET {"    title"}

\* impacted: re.search(impact_string, git_log, re.IGNORECASE)
impacted(log_lines, impact_string) ==
    \E i \in 1..Len(log_lines) : Lower(log_lines[i]) = Lower(impact_string)

\* s.rstrip('/')
RECURSIVE rstrip(_, _)
rstrip(s, tok) ==
    IF s # <<>> /\ s[Len(s)] = tok THEN rstrip(SubSeq(s, 1, Len(s) - 1), tok)
    ELSE s

\* projects.docimpact_target(project_name): the bug-tracker project the
\* registry maps the project to, 'unknown' when it maps it to none.
docimpact_target(project_name) ==
    {<<"unknown">>, <<"openstack-manuals">>, <<"openstack-api-site">>}

\* str(lpconn.projects[lp_project]): the link of the Launchpad entry.
lp_link(lp_project) == <<"https://api.launchpad.net/devel", "/">> \o lp_project

\* The tags argument of createBug: one string, or a list of strings.
TagString(tag) == [kind |-> "str", items |-> <<tag>>]
TagList(tag_items) == [kind |-> "list", items |-> tag_items]

\* BugActionsReal.create adding the doc tag whatever the target.
BugActionsReal_create_always_doc(project, bug_title, a) ==
    LET parts == Split(a.project, "/")
    IN  IF Len(parts) < 2 THEN Result(<<>>, TRUE, <<>>)
        ELSE Result(<<>>, FALSE,
                    <<[target |-> project, title |-> bug_title,
                       tags |-> TagList(<<parts[2], DOC_TAG>>)]>>)

\* BugActionsReal.create: the bug it creates; args.project.split('/')[1]
\* raises IndexError for a project without '/'.
BugActionsReal_create(project, bug_title, a) ==
    LET link == Split(lp_link(project), "/")
        lp_target_project == link[Len(link)]
        parts == Split(a.project, "/")
    IN  IF Len(parts) < 2 THEN Result(<<>>, TRUE, <<>>)
        ELSE Result(<<>>, FALSE,
                    <<[target |-> project, title |-> bug_title,
                       tags |-> IF lp_target_project # <<"openstack-manuals">>
                                THEN TagList(<<parts[2], DOC_TAG>>)
                                ELSE TagString(parts[2])]>>)

\* BugActionsDryRun.create: a report on stdout, nothing created.
BugActionsDryRun_create(project, bug_title, a) == Result(<<>>, FALSE, <<>>)

\* create_bug with the answer of docimpact_target; lines_in_log[4] raises
\* IndexError for a log of fewer than five lines.
create_bug(log_lines, a, target) ==
    LET project_name == rstrip(a.project, "/")
        lp_project == IF target = <<"unknown">> THEN project_name ELSE target
    IN  IF Len(log_lines) < 5 THEN Result(<<>>, TRUE, <<>>)
        ELSE IF a.dryrun
        THEN BugActionsDryRun_create(lp_project, log_lines[5], a)
        ELSE BugActionsReal_create(lp_project, log_lines[5], a)

\* main: extract_git_log, then process_impact if the log is impacted.
ni_main ==
    /\ imp_pc = "main"
    /\ imp_pc' = IF impacted(git_log, args.impact) THEN "process_impact" ELSE "done"
    /\ UNCHANGED <<args, git_log, bugs, printed, mails, lp_titles>>
    /\ UNCHANGED <<syncVars, registryVars, welcomeVars, laterVars>>

\* process_impact: a DocImpact goes to create_bug when the change merged and
\* nowhere otherwise; any other impact is mailed.
ni_process_impact ==
    /\ imp_pc = "process_impact"
    /\ IF Lower(args.impact) = "docimpact"
       THEN /\ imp_pc' = IF args.hook = "change-merged" THEN "create_bug" ELSE "done"
            /\ UNCHANGED mails
       ELSE /\ mails' = mails + 1
            /\ imp_pc' = "done"
    /\ UNCHANGED <<args, git_log, bugs, printed, lp_titles>>
    /\ UNCHANGED <<syncVars, registryVars, welcomeVars, laterVars>>

ni_create_bug ==
    /\ imp_pc = "create_bug"
    /\ \E target \in docimpact_target(rstrip(args.project, "/")) :
         LET r == create_bug(git_log, args, target)
         IN  /\ bugs' = bugs \o r.ret
             /\ printed' = IF args.dryrun /\ ~r.exc THEN printed + 1 ELSE printed
             /\ imp_pc' = IF r.exc THEN "raised" ELSE "done"
    /\ UNCHANGED <<args, git_log, mails, lp_titles>>
    /\ UNCHANGED <<syncVars, registryVars, welcomeVars, laterVars>>

NextImpact == ni_main \/ ni_process_impact \/ ni_create_bug

\* =========================================================================
\*  The bug hook: one bug task (cmd/update_bug.py)
\* =========================================================================
MaxRelated == 2

\* str.rsplit('/', 1)[-1]: what follows the last "/".
rsplit_last(s) == Split(s, "/")[Len(Split(s, "/"))]

\* str.startswith('proposed/')
startswith_proposed(branch) ==
    Len(branch) >= 2 /\ branch[1] = "proposed" /\ branch[2] = "/"

Master == <<"master">>

\* str.isalnum() of a token: a run of word characters without "." or "_".
AlnumTokens == {"master", "proposed", "stable", "grizzly", "havana", "x"}

\* What the prefix group of the regular expression can hold (None when the
\* optional group did not take part in the match).
RawPrefixes ==
    {None, <<"Closes", "-">>, <<"Fixes">>, <<"resolves">>,
     <<"Partial", "-", "Bug">>, <<"Related", "-">>, <<"Impacts">>,
     <<"Affects", "-">>, <<"WIP">>, <<"-", "x">>}

Hooks == {"change-merged", "patchset-created", "change-abandoned"}
Branches ==
    {Master, <<"proposed", "/", "grizzly">>, <<"stable", "/", "grizzly">>,
     <<"stable", "/", "1.0">>, <<"havana">>}
Statuses == {"New", "In Progress", "Fix Committed", "Fix Released"}
TargetNames == {<<"nova">>, <<"nova", "/", "grizzly">>, <<"nova", "/", "havana">>}
\* The statuses of a related task the hook tells apart.
RelatedStatuses == {"New", "Fix Committed", "Fix Released"}
RelatedTask == [bug_target_name : TargetNames, status : RelatedStatuses]
RelatedChoices ==
    UNION {[1..n -> RelatedTask] : n \in 0..MaxRelated}

NoUbArgs == [hook |-> "none", branch |-> <<>>, patchset |-> ""]

StatusChanges == {"set_in_progress", "set_fix_committed", "set_fix_released"}

\* Task.__init__, self.prefix: what precedes the first "-", in lower case;
\* 'closes' when the reference has no prefix.
Task_prefix(prefix) ==
    LET head == IF prefix = None THEN <<>> ELSE Split(prefix, "-")[1]
    IN  IF prefix = None THEN "closes"
        ELSE IF head = <<>> THEN ""
        ELSE Lower(head[1])

\* Task.__init__: the changes a reference of this prefix asks for.
Task_init(prefix) ==
    LET word == Task_prefix(prefix)
    IN  IF word \in {"closes", "fixes", "resolves"}
        THEN {"add_comment", "set_in_progress", "set_fix_committed",
              "set_fix_released"}
        ELSE IF word = "partial" THEN {"add_comment", "set_in_progress"}
        ELSE IF word \in {"related", "impacts", "affects"} THEN {"sidenote"}
        ELSE {"add_comment"}

\* Task.needs_change
needs_change(cn, change) == change \in cn

\* p.is_delay_release(project): an answer of the project registry.
is_delay_release == BOOLEAN

\* One thing done to the bug: task 0 is the bug task, task i its i-th
\* related task.
Did(what, task) == [what |-> what, task |-> task]

\* The hook's view of Launchpad: the bug task, its related tasks, the bug's
\* tags, and what was done.
Lp(status, related, tags, did) ==
    [status |-> status, related |-> related, tags |-> tags, did |-> did]

\* release_fixcommitted
release_fixcommitted(lp) ==
    IF lp.status = "Fix Committed"
    THEN Lp("Fix Released", lp.related, lp.tags,
            Append(lp.did, Did("set_fix_released", 0)))
    ELSE lp

\* tag_in_branchname: "/" becomes "-"; tagged when the rest is alphanumeric.
tag_in_branchname(lp, branch) ==
    LET branch_name == [k \in 1..Len(branch) |->
                           IF branch[k] = "/" THEN "-" ELSE branch[k]]
        isalnum == \A k \in 1..Len(branch_name) :
                       branch_name[k] = "-" \/ branch_name[k] \in AlnumTokens
    IN  IF isalnum /\ branch_name # <<>>
        THEN Lp(lp.status, lp.related, lp.tags \cup {<<"in", "-">> \o branch_name},
                Append(lp.did, Did("tag", 0)))
        ELSE lp

\* A loop over related_tasks that keeps going after an update: the last
\* related task of the series is the one left updated.
FirstEligible_last(related, series, cn, change, closed) ==
    LET ok == {k \in 1..Len(related) :
                  /\ EndsWith(related[k].bug_target_name, series)
                  /\ related[k].status \notin closed
                  /\ needs_change(cn, change)}
    IN  IF ok = {} THEN 0 ELSE CHOOSE k \in ok : \A j \in ok : k >= j

\* A loop over related_tasks that does not look at the status of the task.
FirstEligible_any(related, series, cn, change, closed) ==
    LET ok == {k \in 1..Len(related) :
                  /\ EndsWith(related[k].bug_target_name, series)
                  /\ needs_change(cn, change)}
    IN  IF ok = {} THEN 0 ELSE CHOOSE k \in ok : \A j \in ok : k <= j

\* The first related task of the series the loop over related_tasks would
\* update to new_status, 0 when the loop ends without break.
FirstEligible(related, series, cn, change, closed) ==
    LET ok == {k \in 1..Len(related) :
                  /\ EndsWith(related[k].bug_target_name, series)
                  /\ related[k].status \notin closed
                  /\ needs_change(cn, change)}
    IN  IF ok = {} THEN 0 ELSE CHOOSE k \in ok : \A j \in ok : k <= j

set_reltask(lp, k, change, status) ==
    Lp(lp.status, [lp.related EXCEPT ![k].status = status], lp.tags,
       Append(lp.did, Did(change, k)))

set_bugtask(lp, change, status) ==
    Lp(status, lp.related, lp.tags, Append(lp.did, Did(change, 0)))

\* add_change_merged_message / add_change_proposed_message, when the
\* reference asks for a comment or a side note.
add_message(lp, cn, fix, related_fix) ==
    IF needs_change(cn, "add_comment") \/ needs_change(cn, "sidenote")
    THEN Lp(lp.status, lp.related, lp.tags,
            Append(lp.did,
                   Did(IF needs_change(cn, "sidenote") THEN related_fix ELSE fix,
                       0)))
    ELSE lp

\* process_bugtask
process_bugtask(a, cn, lp, delay) ==
    LET series == rsplit_last(a.branch)
    IN  IF a.hook = "change-abandoned"
        THEN Lp(lp.status, lp.related, lp.tags,
                Append(lp.did, Did("Change abandoned", 0)))
        ELSE IF a.hook = "change-merged"
        THEN LET s1 ==
                     IF a.branch = Master
                     THEN IF ~delay /\ needs_change(cn, "set_fix_released")
                          THEN set_bugtask(lp, "set_fix_released", "Fix Released")
                          ELSE IF /\ lp.status # "Fix Released"
                                  /\ needs_change(cn, "set_fix_committed")
                          THEN set_bugtask(lp, "set_fix_committed", "Fix Committed")
                          ELSE lp
                     ELSE IF startswith_proposed(a.branch)
                     THEN release_fixcommitted(lp)
                     ELSE IF series # <<>>
                     THEN LET k == FirstEligible(lp.related, series, cn,
                                                 "set_fix_committed",
                                                 {"Fix Released"})
                          IN  IF k # 0
                              THEN set_reltask(lp, k, "set_fix_committed",
                                               "Fix Committed")
                              ELSE tag_in_branchname(lp, a.branch)
                     ELSE lp
             IN  add_message(s1, cn, "Fix merged", "Related fix merged")
        ELSE IF a.hook = "patchset-created"
        THEN LET s1 ==
                     IF a.branch = Master
                     THEN IF /\ lp.status \notin {"Fix Committed", "Fix Released"}
                             /\ needs_change(cn, "set_in_progress")
                          THEN set_bugtask(lp, "set_in_progress", "In Progress")
                          ELSE lp
                     ELSE IF series # <<>>
                     THEN LET k == FirstEligible(lp.related, series, cn,
                                                 "set_in_progress",
                                                 {"Fix Committed", "Fix Released"})
                          IN  IF k # 0
                              THEN set_reltask(lp, k, "set_in_progress",
                                               "In Progress")
                              ELSE lp
                     ELSE lp
             IN  IF a.patchset = "1" THEN add_message(s1, cn, "Fix proposed",
                                  "Related fix proposed") ELSE s1
        ELSE lp

InitBug ==
    /\ ub_pc = "find_bugs"
    /\ ub_args \in [hook : Hooks, branch : Branches, patchset : {"1", "2"}]
    /\ task_prefix \in RawPrefixes
    /\ changes_needed = {}
    /\ bugtask_status \in Statuses
    /\ related_tasks \in RelatedChoices
    /\ bug_tags = {}
    /\ applied = <<>>

\* find_bugs builds the Task of the reference it found.
ub_find_bugs ==
    /\ ub_pc = "find_bugs"
    /\ changes_needed' = Task_init(task_prefix)
    /\ ub_pc' = "process_bugtask"
    /\ UNCHANGED <<ub_args, task_prefix, bugtask_status, related_tasks,
                   bug_tags, applied>>
    /\ UNCHANGED offBug

\* main hands the Task to process_bugtask.
ub_process_bugtask ==
    /\ ub_pc = "process_bugtask"
    /\ \E delay \in is_delay_release :
         LET r == process_bugtask(ub_args, changes_needed,
                                  Lp(bugtask_status, related_tasks, bug_tags,
                                     applied), delay)
         IN  /\ bugtask_status' = r.status
             /\ related_tasks' = r.related
             /\ bug_tags' = r.tags
             /\ applied' = r.did
    /\ ub_pc' = "done"
    /\ UNCHANGED <<ub_args, task_prefix, changes_needed>>
    /\ UNCHANGED offBug

NextBug == ub_find_bugs \/ ub_process_bugtask

\* One prefix for each branch of Task.__init__.
HookPrefixes == {None, <<"Partial", "-", "Bug">>, <<"Related", "-">>, <<"WIP">>}

\* Gerrit runs the hook again: another event on the same bug, which
\* Launchpad holds as the earlier invocations left it.
ub_next_hook ==
    /\ ub_pc = "done"
    /\ ub_pc' = "find_bugs"
    /\ ub_args' \in [hook : Hooks, branch : Branches, patchset : {"1", "2"}]
    /\ task_prefix' \in HookPrefixes
    /\ changes_needed' = {}
    /\ applied' = <<>>
    /\ UNCHANGED <<bugtask_status, related_tasks, bug_tags>>
    /\ UNCHANGED offBug

InitHooks ==
    /\ InitBug
    /\ task_prefix \in HookPrefixes
    /\ Len(related_tasks) = MaxRelated
    /\ \A k \in 2..Len(related_tasks) :
          related_tasks[k].bug_target_name = <<"nova", "/", "grizzly">>

NextHooks == NextBug \/ ub_next_hook

\* =========================================================================
\*  The bug hook: references in a commit log (find_bugs)
\* =========================================================================
\* A text is a sequence of tokens: a maximal run of word characters (\w),
\* or one character that is not a word character.
MaxLogLines == 3

DigitTokens == {"555555", "555"}
NonWordTokens == {" ", ":", "#", "-", ".", "\n"}
IsWord(tok) == tok \notin NonWordTokens

\* The lines a commit log is made of.
LogLines ==
    {<<"Closes", "-", "Bug", ":", " ", "555555">>,
     <<"bug", " ", "#", " ", "555555">>,
     <<"Partial", "-", "Bug", ":", " ", "lp", " ", "bug", " ", "#", " ", "555555">>,
     <<"Fixes", ":", " ", "bug", " ", "#", " ", "555">>,
     <<"Closes", ":", " ", "555">>,
     <<"Related", "-", "Bug", ":", " ", "#", "555">>,
     <<"bug", " ", "555", " ", "x">>,
     <<"WIP">>,
     <<" ", "Title", " ", "words", ".">>,
     <<>>}

\* '\n'.join(lines)
RECURSIVE JoinLines(_)
JoinLines(lines) ==
    IF lines = <<>> THEN <<>>
    ELSE IF Len(lines) = 1 THEN lines[1]
    ELSE lines[1] \o <<"\n">> \o JoinLines(Tail(lines))

CommitLogs ==
    {JoinLines(ls) : ls \in UNION {[1..n -> LogLines] : n \in 1..MaxLogLines}}

\* A greedy character class: the first position from i on whose token is not
\* in the class.
SkipClass(s, i, class) ==
    CHOOSE j \in i..(Len(s) + 1) :
        /\ \A k \in i..(j - 1) : s[k] \in class
        /\ j = Len(s) + 1 \/ s[j] \notin class

\* [-\w]+ : the first position from i on whose token is neither a word nor "-".
SkipPrefix(s, i) ==
    CHOOSE j \in i..(Len(s) + 1) :
        /\ \A k \in i..(j - 1) : IsWord(s[k]) \/ s[k] = "-"
        /\ j = Len(s) + 1 \/ ~(IsWord(s[j]) \/ s[j] = "-")

\* part2, (?:\b(?:bug|lp)\b[\s#:]*)+ with re.I: where it ends when matched
\* from i on, 0 when it does not match.
RECURSIVE part2(_, _)
part2(s, i) ==
    IF i <= Len(s) /\ Lower(s[i]) \in {"bug", "lp"}
    THEN LET j == SkipClass(s, i + 1, {" ", "\n", "#", ":"})
             more == part2(s, j)
         IN  IF more # 0 THEN more ELSE j
    ELSE 0

\* part3, (?P<bug_number>\d+)\s*?$ with re.M: where the match ends when the
\* number is at i, 0 when it does not match.
part3(s, i) ==
    IF i <= Len(s) /\ s[i] \in DigitTokens
    THEN LET e == SkipClass(s, i + 1, {" "})
         IN  IF e = Len(s) + 1 \/ s[e] = "\n" THEN e ELSE 0
    ELSE 0

\* [\s:]* and parts 2 and 3 from i on: the position of the number, 0 when
\* they do not match.
after_prefix(s, i) ==
    LET b == SkipClass(s, i, {" ", "\n", ":"})
        n == part2(s, b)
    IN  IF n # 0 /\ part3(s, n) # 0 THEN n ELSE 0

NoMatch == [prefix |-> None, bug_number |-> "", number_at |-> 0, end |-> 0]

\* The regular expression tried at the start of a line: the optional prefix
\* group takes as much as it can and gives back token by token.
match_at(s, i) ==
    LET j == SkipClass(s, i, {" "})
        r == SkipPrefix(s, j)
        taken == {k \in (j + 1)..r : after_prefix(s, k) # 0}
    IN  IF taken # {}
        THEN LET k == CHOOSE k \in taken : \A m \in taken : m <= k
                 n == after_prefix(s, k)
             IN  [prefix |-> SubSeq(s, j, k - 1), bug_number |-> s[n],
                  number_at |-> n, end |-> part3(s, n)]
        ELSE IF after_prefix(s, j) # 0
        THEN LET n == after_prefix(s, j)
             IN  [prefix |-> None, bug_number |-> s[n],
                  number_at |-> n, end |-> part3(s, n)]
        ELSE NoMatch

\* ^ with re.M: the start of the text or the place after a newline.
LineStart(s, i) == i = 1 \/ (i >= 2 /\ i <= Len(s) + 1 /\ s[i - 1] = "\n")

\* re.finditer, one step: the leftmost match from pos on.
next_match(s, pos) ==
    LET starts == {i \in pos..Len(s) : LineStart(s, i) /\ match_at(s, i) # NoMatch}
    IN  IF starts = {} THEN NoMatch
        ELSE match_at(s, CHOOSE i \in starts : \A m \in starts : i <= m)

InitRefs ==
    /\ fb_pc = "finditer"
    /\ fb_git_log \in CommitLogs
    /\ fb_pos = 1
    /\ fb_matches = <<>>

\* for match in matches: the next reference in the log.
fb_match ==
    /\ fb_pc = "finditer"
    /\ next_match(fb_git_log, fb_pos) # NoMatch
    /\ fb_matches' = Append(fb_matches, next_match(fb_git_log, fb_pos))
    /\ fb_pos' = next_match(fb_git_log, fb_pos).end
    /\ UNCHANGED <<fb_pc, fb_git_log>>
    /\ UNCHANGED offRefs

\* The iterator is exhausted.
fb_exhausted ==
    /\ fb_pc = "finditer"
    /\ next_match(fb_git_log, fb_pos) = NoMatch
    /\ fb_pc' = "done"
    /\ UNCHANGED <<fb_git_log, fb_pos, fb_matches>>
    /\ UNCHANGED offRefs

NextRefs == fb_match \/ fb_exhausted

\* =========================================================================
\*  ACL reconciliation of one project, step by step (cmd/manage_projects.py)
\* =========================================================================
MaxAclLines == 2

\* range(10) of the three polling loops
FetchAttempts == 10
FindAttempts == 10
QueryAttempts == 10

\* GERRIT_SYSTEM_GROUPS (two of its four entries)
GERRIT_SYSTEM_GROUPS ==
    [g \in {"Registered Users", "Project Owners"} |->
        IF g = "Registered Users" THEN "global:Registered-Users"
        ELSE "global:Project-Owners"]

\* Groups the database can hold, and the UUID it gives for one.
InternalGroups == {"Administrators", "proj-core"}
DbUuid(g) ==
    CASE g = "Administrators" -> "uuid:Administrators"
      [] g = "proj-core" -> "uuid:proj-core"
      [] OTHER -> "uuid:other"

\* The lines of project.config.
Whitespace == {" ", "\t"}
GroupLine(g) == <<"\t", "read", " ", "=", " ", "group", " ", g>>
AclLines ==
    {GroupLine(g) : g \in InternalGroups \cup {"Registered Users"}}
    \cup {<<"[", "access", "]">>, <<"\t", "group", "=", "x">>}
ProjectConfigs == UNION {[1..n -> AclLines] : n \in 0..MaxAclLines}

\* re.match(r'^.*\sgroup\s+(.*)$', line): the group the line names,
\* NoGroup when the line does not match.
NoGroup == "<no match>"
group_of(line) ==
    LET at == {i \in 2..(Len(line) - 1) :
                  /\ line[i] = "group"
                  /\ line[i - 1] \in Whitespace
                  /\ line[i + 1] \in Whitespace}
    IN  IF at = {} THEN NoGroup
        ELSE LET i == CHOOSE i \in at : \A j \in at : j <= i
                 rest == i + 1 +
                         Cardinality({k \in (i + 1)..Len(line) :
                            \A m \in (i + 1)..k : line[m] \in Whitespace})
             IN  IF rest > Len(line) THEN "" ELSE line[rest]

\* The groups file of refs/meta/config as fetched: absent, or lines of an
\* earlier reconciliation.
OldGroupsFiles == {{}, {<<DbUuid("old-group"), "old-group">>}}

EmptyDict == [g \in {} |-> ""]

InitAcl ==
    /\ acl_pc = "isfile"
    /\ acl_x = 0
    /\ acl_status = 0
    /\ acl_output = ""
    /\ project_config \in ProjectConfigs
    /\ acl_line = 1
    /\ uuids = EmptyDict
    /\ account_groups \in SUBSET InternalGroups
    /\ pending = {}
    /\ created_groups = <<>>
    /\ groups_file \in OldGroupsFiles
    /\ acl_ops = {}
    /\ acl_raised = "none"

IdleAcl ==
    /\ acl_pc = "idle"
    /\ acl_x = 0
    /\ acl_status = 0
    /\ acl_output = ""
    /\ project_config = <<>>
    /\ acl_line = 1
    /\ uuids = EmptyDict
    /\ account_groups = {}
    /\ pending = {}
    /\ created_groups = <<>>
    /\ groups_file = {}
    /\ acl_ops = {}
    /\ acl_raised = "none"

\* raise: to the except clause of process_acls, and on to its finally.
AclRaise(exception) ==
    /\ acl_raised' = exception
    /\ acl_pc' = "finally"

\* if not os.path.isfile(acl_config): return
ac_isfile ==
    /\ acl_pc = "isfile"
    /\ \E isfile \in BOOLEAN : acl_pc' = IF isfile THEN "fetch" ELSE "done"
    /\ UNCHANGED <<acl_x, acl_status, acl_output, project_config, acl_line,
                   uuids, account_groups, pending, created_groups, groups_file,
                   acl_ops, acl_raised>>
    /\ UNCHANGED offAcl

\* fetch_config, first loop: an attempt that does not raise although the
\* budget is used up.
ac_fetch_on(status) ==
    /\ acl_status' = status
    /\ IF status = 0 \/ acl_x + 1 = FetchAttempts
       THEN acl_pc' = "find" /\ acl_x' = 0
       ELSE acl_pc' = acl_pc /\ acl_x' = acl_x + 1
    /\ UNCHANGED acl_raised

\* fetch_config, first loop: one fetch of refs/meta/config; the loop ends at
\* status 0 or after the last x, and "if status != 0: raise" follows it.
ac_fetch_attempt(status) ==
    /\ acl_status' = status
    /\ IF status = 0
       THEN acl_pc' = "find" /\ acl_x' = 0 /\ UNCHANGED acl_raised
       ELSE IF acl_x + 1 = FetchAttempts
       THEN AclRaise("FetchConfigException") /\ acl_x' = acl_x + 1
       ELSE acl_pc' = acl_pc /\ acl_x' = acl_x + 1 /\ UNCHANGED acl_raised

ac_fetch ==
    /\ acl_pc = "fetch"
    /\ acl_x < FetchAttempts
    /\ \E status \in {0, 1} : ac_fetch_attempt(status)
    /\ UNCHANGED <<acl_output, project_config, acl_line, uuids,
                   account_groups, pending, created_groups, groups_file, acl_ops>>
    /\ UNCHANGED offAcl

\* fetch_config, second loop: remote update --prune, then ls-files when the
\* update succeeded; the loop ends when project.config was found or after
\* the last x, and the test on output and status follows it.
ac_find ==
    /\ acl_pc = "find"
    /\ acl_x < FindAttempts
    /\ \E update \in {0, 1}, ls \in {0, 1},
          out \in {"project.config", ""} :
         LET status == IF update # 0 THEN update ELSE ls
             output == IF update # 0 THEN acl_output ELSE out
             found == update = 0 /\ ~(output # "project.config" \/ status # 0)
         IN  /\ acl_status' = status
             /\ acl_output' = output
             /\ IF found
                THEN acl_pc' = "checkout" /\ acl_x' = 0 /\ UNCHANGED acl_raised
                ELSE IF acl_x + 1 = FindAttempts
                THEN /\ acl_x' = acl_x + 1
                     /\ IF output # "project.config" \/ status # 0
                        THEN AclRaise("FetchConfigException")
                        ELSE acl_pc' = "checkout" /\ UNCHANGED acl_raised
                ELSE acl_pc' = acl_pc /\ acl_x' = acl_x + 1
                     /\ UNCHANGED acl_raised
    /\ UNCHANGED <<project_config, acl_line, uuids, account_groups, pending,
                   created_groups, groups_file, acl_ops>>
    /\ UNCHANGED offAcl

\* fetch_config, the end: checkout -B config remotes/gerrit-meta/config
ac_checkout ==
    /\ acl_pc = "checkout"
    /\ acl_ops' = acl_ops \cup {"checkout -B config"}
    /\ \E status \in {0, 1} :
         /\ acl_status' = status
         /\ IF status # 0 THEN AclRaise("FetchConfigException")
            ELSE acl_pc' = "copy_acl_config" /\ UNCHANGED acl_raised
    /\ UNCHANGED <<acl_x, acl_output, project_config, acl_line, uuids,
                   account_groups, pending, created_groups, groups_file>>
    /\ UNCHANGED offAcl

\* copy_acl_config, and "if not copy_acl_config(...): return"
ac_copy_acl_config ==
    /\ acl_pc = "copy_acl_config"
    /\ \E exists \in BOOLEAN, cp \in {0, 1}, diff \in {0, 1} :
         IF ~exists \/ cp # 0 THEN AclRaise("CopyACLException")
         ELSE /\ acl_pc' = IF diff # 0 THEN "create_groups_file" ELSE "finally"
              /\ UNCHANGED acl_raised
    /\ UNCHANGED <<acl_x, acl_status, acl_output, project_config, acl_line,
                   uuids, account_groups, pending, created_groups, groups_file,
                   acl_ops>>
    /\ UNCHANGED offAcl

\* create_groups_file, one line of project.config: a line that names no
\* group, or a group already in uuids, is passed over; for another group
\* get_group_uuid begins.
ac_line ==
    /\ acl_pc = "create_groups_file"
    /\ acl_line <= Len(project_config)
    /\ LET group == group_of(project_config[acl_line])
       IN  IF group = NoGroup \/ group \in DOMAIN uuids
           THEN /\ acl_line' = acl_line + 1
                /\ UNCHANGED <<acl_pc, acl_x>>
           ELSE /\ acl_pc' = "_get_group_uuid"
                /\ acl_x' = 0
                /\ UNCHANGED acl_line
    /\ UNCHANGED <<acl_status, acl_output, project_config, uuids,
                   account_groups, pending, created_groups, groups_file, acl_ops,
                   acl_raised>>
    /\ UNCHANGED offAcl

\* get_group_uuid after _get_group_uuid returned None for the first time:
\* a group created whatever table it is in.
get_group_uuid_create(group) ==
    \E ok \in BOOLEAN :
        /\ created_groups' = Append(created_groups, group)
        /\ IF ok
           THEN /\ pending' = pending \cup {group}
                /\ acl_pc' = "_get_group_uuid again"
                /\ acl_x' = 0
                /\ UNCHANGED acl_raised
           ELSE /\ AclRaise("Exception")
                /\ acl_x' = acl_x + 1
                /\ UNCHANGED pending
        /\ UNCHANGED <<uuids, acl_line>>

\* A get_group_uuid that does not look at the system-group table.
get_group_uuid_no_table(group) == get_group_uuid_create(group)

\* get_group_uuid after _get_group_uuid returned None for the first time:
\* the system-group table, else gerrit.createGroup and a second
\* _get_group_uuid.
get_group_uuid_miss(group) ==
    IF group \in DOMAIN GERRIT_SYSTEM_GROUPS
    THEN /\ uuids' = uuids @@ (group :> GERRIT_SYSTEM_GROUPS[group])
         /\ acl_line' = acl_line + 1
         /\ acl_pc' = "create_groups_file"
         /\ acl_x' = 0
         /\ UNCHANGED <<created_groups, pending, acl_raised>>
    ELSE get_group_uuid_create(group)

\* _get_group_uuid, one query.  A group in the table is found; a group
\* created a moment ago is found or not yet.  After the last miss the
\* function returns None to get_group_uuid.
ac_query ==
    /\ acl_pc \in {"_get_group_uuid", "_get_group_uuid again"}
    /\ acl_x < QueryAttempts
    /\ LET group == group_of(project_config[acl_line])
       IN  \E visible \in BOOLEAN :
             LET data == group \in account_groups \/ (group \in pending /\ visible)
             IN  IF data
                 THEN /\ uuids' = uuids @@ (group :> DbUuid(group))
                      /\ account_groups' = account_groups \cup {group}
                      /\ pending' = pending \ {group}
                      /\ acl_line' = acl_line + 1
                      /\ acl_pc' = "create_groups_file"
                      /\ acl_x' = 0
                      /\ UNCHANGED <<created_groups, acl_raised>>
                 ELSE IF acl_x + 1 < QueryAttempts
                 THEN /\ acl_x' = acl_x + 1
                      /\ UNCHANGED <<acl_pc, uuids, account_groups, pending,
                                     acl_line, created_groups, acl_raised>>
                 ELSE IF acl_pc = "_get_group_uuid"
                 THEN get_group_uuid_miss(group) /\ UNCHANGED account_groups
                 ELSE /\ AclRaise("CreateGroupException")
                      /\ acl_x' = acl_x + 1
                      /\ UNCHANGED <<uuids, account_groups, pending, acl_line,
                                     created_groups>>
    /\ UNCHANGED <<acl_status, acl_output, project_config, groups_file, acl_ops>>
    /\ UNCHANGED offAcl

\* create_groups_file after the last line: the groups file is written and
\* added when uuids is not empty.
ac_write_groups ==
    /\ acl_pc = "create_groups_file"
    /\ acl_line > Len(project_config)
    /\ IF uuids # EmptyDict
       THEN /\ groups_file' = {<<uuids[g], g>> : g \in DOMAIN uuids}
            /\ \E status \in {0, 1} :
                 IF status # 0 THEN AclRaise("CreateGroupException")
                 ELSE acl_pc' = "push_acl_config" /\ UNCHANGED acl_raised
       ELSE /\ acl_pc' = "push_acl_config"
            /\ UNCHANGED <<groups_file, acl_raised>>
    /\ UNCHANGED <<acl_x, acl_status, acl_output, project_config, acl_line,
                   uuids, account_groups, pending, created_groups, acl_ops>>
    /\ UNCHANGED offAcl

\* push_acl_config: commit, then push when the commit succeeded.
ac_push_acl_config ==
    /\ acl_pc = "push_acl_config"
    /\ \E commit \in {0, 1} :
         acl_ops' = acl_ops \cup {"commit"}
                    \cup (IF commit = 0 THEN {"push HEAD:refs/meta/config"}
                          ELSE {})
    /\ acl_pc' = "finally"
    /\ UNCHANGED <<acl_x, acl_status, acl_output, project_config, acl_line,
                   uuids, account_groups, pending, created_groups, groups_file,
                   acl_raised>>
    /\ UNCHANGED offAcl

\* finally: reset --hard, checkout master, branch -D config
ac_finally ==
    /\ acl_pc = "finally"
    /\ acl_ops' = acl_ops \cup {"reset --hard", "checkout master",
                                "branch -D config"}
    /\ acl_pc' = "done"
    /\ UNCHANGED <<acl_x, acl_status, acl_output, project_config, acl_line,
                   uuids, account_groups, pending, created_groups, groups_file,
                   acl_raised>>
    /\ UNCHANGED offAcl

NextAcl ==
    \/ ac_isfile
    \/ ac_fetch
    \/ ac_find
    \/ ac_checkout
    \/ ac_copy_acl_config
    \/ ac_line
    \/ ac_query
    \/ ac_write_groups
    \/ ac_push_acl_config
    \/ ac_finally

\* =========================================================================
\*  make_local_copy on its own (cmd/manage_projects.py, utils.py)
\* =========================================================================
NoCopyArgs == [script |-> "none", project |-> None, project_list |-> {},
               upstream |-> None]
NoCopy == Result(<<>>, FALSE, None)

\* manage_projects calls make_local_copy when repo_path does not exist or
\* the project was created in Gerrit in this run, which is a project that
\* gerrit.listProjects() did not hold; track_upstream calls it when
\* repo_path does not exist.
InitCopy ==
    /\ lc_pc = "call"
    /\ lc_args \in [script : {"manage_projects", "track_upstream"},
                    project : ProjectIds,
                    project_list : SUBSET ProjectIds,
                    upstream : {None, Upstream}]
    /\ lc_tree \in IF /\ lc_args.script = "manage_projects"
                      /\ lc_args.project \notin lc_args.project_list
                   THEN {"absent", "stale"}
                   ELSE {"absent"}
    /\ lc_ret = NoCopy

IdleCopy ==
    /\ lc_pc = "idle"
    /\ lc_args = NoCopyArgs
    /\ lc_tree = "absent"
    /\ lc_ret = NoCopy

\* The working tree after make_local_copy: git clone refuses a directory
\* that is not empty and git init keeps what is in it; neither function
\* removes repo_path.
tree_after(tree) == IF tree = "stale" THEN "stale" ELSE "fresh"

\* manage_projects.make_local_copy
lc_manage ==
    /\ lc_pc = "call"
    /\ lc_args.script = "manage_projects"
    /\ \E io_ok \in BOOLEAN :
         lc_ret' = make_local_copy(lc_args.project, lc_args.project_list,
                                   lc_args.upstream, io_ok)
    /\ lc_tree' = tree_after(lc_tree)
    /\ lc_pc' = "returned"
    /\ UNCHANGED lc_args
    /\ UNCHANGED offCopy

\* utils.make_local_copy
lc_utils ==
    /\ lc_pc = "call"
    /\ lc_args.script = "track_upstream"
    /\ \E clone_ok \in BOOLEAN, io_ok \in BOOLEAN :
         lc_ret' = u_make_local_copy(lc_args.project, lc_args.project_list,
                                     lc_args.upstream, clone_ok, io_ok)
    /\ lc_tree' = tree_after(lc_tree)
    /\ lc_pc' = "returned"
    /\ UNCHANGED lc_args
    /\ UNCHANGED offCopy

NextCopy == lc_manage \/ lc_utils

\* =========================================================================
\*  create_github_project on its own (cmd/manage_projects.py)
\* =========================================================================
GithubFlags == {"has-issues", "has-downloads", "has-wiki"}
Description == <<"a description">>
Homepage == <<"http://example.org">>

\* A repository of GitHub, and none.
Repo(description, homepage, flags) ==
    [exists |-> TRUE, description |-> description, homepage |-> homepage,
     flags |-> flags]
NoRepo == [exists |-> FALSE, description |-> None, homepage |-> None,
           flags |-> {}]
Repos == {Repo(d, h, f) : d \in {None, Description}, h \in {None, Homepage},
                          f \in SUBSET GithubFlags}

NoGithubArgs == [options |-> {}, defaults |-> {}, description |-> None,
                 homepage |-> None, replicate |-> FALSE]

InitGithub ==
    /\ gh_pc = "call"
    /\ gh_args \in [options : SUBSET GithubFlags,
                    defaults : {{}, GithubFlags},
                    description : {None, Description},
                    homepage : {None, Homepage},
                    replicate : BOOLEAN]
    /\ gh_managed \in BOOLEAN
    /\ gh_repo \in {NoRepo} \cup Repos
    /\ gh_teams \in IF gh_repo.exists THEN SUBSET {"gerrit"} ELSE {{}}
    /\ gh_org_teams \in SUBSET {"gerrit"}
    /\ gh_teams \subseteq gh_org_teams
    /\ gh_calls = {}
    /\ gh_created = FALSE

IdleGithub ==
    /\ gh_pc = "idle"
    /\ gh_args = NoGithubArgs
    /\ gh_managed = FALSE
    /\ gh_repo = NoRepo
    /\ gh_teams = {}
    /\ gh_org_teams = {}
    /\ gh_calls = {}
    /\ gh_created = FALSE

\* 'has-issues' in options or default_has_issues, and the two others.
wanted_flags(a) == a.options \cup a.defaults

\* The except branch of create_github_project: create_repo, the edits, and
\* the 'gerrit' team, a KeyError when the organization has no such team.
github_create(a) ==
    /\ gh_repo' = Repo(a.description, a.homepage, wanted_flags(a))
    /\ IF "gerrit" \notin gh_teams
       THEN IF "gerrit" \in gh_org_teams
            THEN /\ gh_teams' = gh_teams \cup {"gerrit"}
                 /\ gh_calls' = gh_calls \cup {"create_repo", "edit", "add_to_repos"}
                 /\ gh_created' = TRUE
                 /\ gh_pc' = "returned"
            ELSE /\ gh_calls' = gh_calls \cup {"create_repo", "edit"}
                 /\ gh_pc' = "raised"
                 /\ UNCHANGED <<gh_teams, gh_created>>
       ELSE /\ gh_calls' = gh_calls \cup {"create_repo", "edit"}
            /\ gh_created' = TRUE
            /\ gh_pc' = "returned"
            /\ UNCHANGED gh_teams

\* The try branch of create_github_project: get_repo found the repository.
github_found(a) ==
    /\ gh_pc' = "returned"
    /\ UNCHANGED <<gh_repo, gh_teams, gh_calls, gh_created>>

\* create_github_project
gh_create_github_project ==
    /\ gh_pc = "call"
    /\ IF ~gh_managed
       THEN /\ gh_pc' = "returned"
            /\ UNCHANGED <<gh_repo, gh_teams, gh_calls, gh_created>>
       ELSE IF gh_repo.exists THEN github_found(gh_args)
       ELSE github_create(gh_args)
    /\ UNCHANGED <<gh_args, gh_managed, gh_org_teams>>
    /\ UNCHANGED offGithub

\* if created and GERRIT_REPLICATE: gerrit.replicate(project)
gh_replicate ==
    /\ gh_pc = "returned"
    /\ gh_calls' = IF gh_created /\ gh_args.replicate
                   THEN gh_calls \cup {"gerrit.replicate"} ELSE gh_calls
    /\ gh_pc' = "done"
    /\ UNCHANGED <<gh_args, gh_managed, gh_repo, gh_teams, gh_org_teams,
                   gh_created>>
    /\ UNCHANGED offGithub

NextGithub == gh_create_github_project \/ gh_replicate

\* =========================================================================
\*  expire_old_reviews (cmd/expire_old_reviews.py)

\* Approvals on the current patch set of a row.
MaxApprovals == 2

ApprovalValues == {"-2", "-1", "0", "1", "2"}
Revisions == <<"r1", "r2">>

\* A line of the query's output: a change, or the statistics
\* ({"type":"stats","rowCount":n,...}) that ends it.
ChangeRow(revision, approvals) ==
    [rowCount |-> FALSE, revision |-> revision, approvals |-> approvals]
StatsRow == [rowCount |-> TRUE, revision |-> "", approvals |-> <<>>]

ApprovalLists ==
    UNION {[1..n -> ApprovalValues] : n \in 1..MaxApprovals}

QueryOutputs ==
    UNION {{[i \in 1..(n + 1) |->
                IF i = n + 1 THEN StatsRow ELSE ChangeRow(Revisions[i], a[i])] :
            a \in [1..n -> ApprovalLists]} : n \in 0..Len(Revisions)}

InitExpire ==
    /\ er_pc = "query"
    /\ er_stdout \in QueryOutputs
    /\ er_line = 0
    /\ er_expired = <<>>

\* The loop over the approvals without its break.
RECURSIVE expire_calls_no_break(_, _)
expire_calls_no_break(approvals, i) ==
    IF i > Len(approvals) THEN 0
    ELSE (IF approvals[i] \in {"-1", "-2"} THEN 1 ELSE 0)
         + expire_calls_no_break(approvals, i + 1)

\* for approval in row['currentPatchSet']['approvals']: the number of calls
\* of expire_patch_set the loop makes from the i-th approval on.
RECURSIVE expire_calls(_, _)
expire_calls(approvals, i) ==
    IF i > Len(approvals) THEN 0
    ELSE IF approvals[i] \in {"-1", "-2"} THEN 1
    ELSE expire_calls(approvals, i + 1)

\* ssh.exec_command('gerrit query ...')
er_query ==
    /\ er_pc = "query"
    /\ er_pc' = "loop"
    /\ er_line' = 1
    /\ UNCHANGED <<er_stdout, er_expired>>
    /\ UNCHANGED offExpire

\* One pass of for line in stdout.
er_row ==
    /\ er_pc = "loop"
    /\ er_line <= Len(er_stdout)
    /\ LET row == er_stdout[er_line]
           calls == IF row.rowCount THEN 0 ELSE expire_calls(row.approvals, 1)
       IN er_expired' = er_expired \o [k \in 1..calls |-> row.revision]
    /\ er_line' = er_line + 1
    /\ UNCHANGED <<er_pc, er_stdout>>
    /\ UNCHANGED offExpire

\* The output is exhausted.
er_end ==
    /\ er_pc = "loop"
    /\ er_line > Len(er_stdout)
    /\ er_pc' = "done"
    /\ UNCHANGED <<er_stdout, er_line, er_expired>>
    /\ UNCHANGED offExpire

NextExpire == er_query \/ er_row \/ er_end
\* ==== end of expire_old_reviews (cmd/expire_old_reviews.py)

\* =========================================================================
\*  close_pull_requests (cmd/close_pull_requests.py)

\* Open pull requests of a repository.
MaxPulls == 2

CloseProjects == <<"org/a", "org/b">>

\* What the lookup of the repository does: orgs_dict[...] can raise
\* KeyError, get_repo can raise GithubException.
Lookups == {"found", "KeyError", "GithubException"}

\* projects.has_github(project): the setting of the project.
has_github == BOOLEAN

\* A section of the registry, with the number of open pull requests of its
\* repository.
CloseSections ==
    [has_github : has_github, has_pull_requests : BOOLEAN, lookup : Lookups,
     pulls : 0..MaxPulls]

CloseRegistries ==
    UNION {{[i \in 1..n |-> [project |-> CloseProjects[i], at |-> s[i]]] :
            s \in [1..n -> CloseSections]} : n \in 0..Len(CloseProjects)}

InitClose ==
    /\ cp_pc = "loop"
    /\ cp_sections \in CloseRegistries
    /\ cp_i = 1
    /\ cp_req = 0
    /\ cp_calls = <<>>

\* A handler of the lookup's exceptions that lets them through.
cp_lookup_raise(lookup) == "raised"

\* except (KeyError, github.GithubException): log.exception(...); continue
cp_lookup_except(lookup) == "loop"

\* for section in registry.configs_list, down to repo.get_pulls("open").
cp_section ==
    /\ cp_pc = "loop"
    /\ cp_i <= Len(cp_sections)
    /\ LET s == cp_sections[cp_i].at
       IN IF ~s.has_github \/ s.has_pull_requests
          THEN /\ cp_i' = cp_i + 1
               /\ UNCHANGED <<cp_pc, cp_req>>
          ELSE IF s.lookup # "found"
          THEN /\ cp_pc' = cp_lookup_except(s.lookup)
               /\ cp_i' = cp_i + 1
               /\ UNCHANGED cp_req
          ELSE IF s.pulls = 0
          THEN /\ cp_i' = cp_i + 1
               /\ UNCHANGED <<cp_pc, cp_req>>
          ELSE /\ cp_pc' = "comment"
               /\ cp_req' = 1
               /\ UNCHANGED cp_i
    /\ UNCHANGED <<cp_sections, cp_calls>>
    /\ UNCHANGED offClose

\* issue.create_comment(pull_request_text % vars)
cp_comment ==
    /\ cp_pc = "comment"
    /\ cp_calls' = Append(cp_calls, [op |-> "create_comment",
                                     project |-> cp_sections[cp_i].project,
                                     number |-> cp_req])
    /\ cp_pc' = "close"
    /\ UNCHANGED <<cp_sections, cp_i, cp_req>>
    /\ UNCHANGED offClose

\* req.edit(state="closed"), and the next pull request or section
cp_close ==
    /\ cp_pc = "close"
    /\ cp_calls' = Append(cp_calls, [op |-> "edit",
                                     project |-> cp_sections[cp_i].project,
                                     number |-> cp_req])
    /\ IF cp_req < cp_sections[cp_i].at.pulls
       THEN /\ cp_req' = cp_req + 1
            /\ cp_pc' = "comment"
            /\ UNCHANGED cp_i
       ELSE /\ cp_i' = cp_i + 1
            /\ cp_pc' = "loop"
            /\ UNCHANGED cp_req
    /\ UNCHANGED cp_sections
    /\ UNCHANGED offClose

\* The registry is exhausted.
cp_end ==
    /\ cp_pc = "loop"
    /\ cp_i > Len(cp_sections)
    /\ cp_pc' = "done"
    /\ UNCHANGED <<cp_sections, cp_i, cp_req, cp_calls>>
    /\ UNCHANGED offClose

NextClose == cp_section \/ cp_comment \/ cp_close \/ cp_end
\* ==== end of close_pull_requests (cmd/close_pull_requests.py)

\* =========================================================================
\*  Zanata registration (translations.py, cmd/register_zanata_projects.py)

ZanataProjects == <<"a", "b">>

\* What the server holds for a project: the project, and its master
\* iteration, which it can hold only for a project it holds.
ZanataStates ==
    {st \in [registered : BOOLEAN, master : BOOLEAN] :
        st.master => st.registered}

\* p.has_translations(project): the setting of the project.
has_translations == BOOLEAN

\* What the network and the server do with the four requests of a
\* register(): "conn" is requests.exceptions.ConnectionError, "refused" a
\* status that is neither 200 nor 201.
ZanataEnv == [get_project : {"ok", "conn"}, put_project : {"ok", "refused", "conn"},
              get_master : {"ok", "conn"}, put_master : {"ok", "refused", "conn"}]

Request(method, what, status) ==
    [method |-> method, what |-> what, status |-> status]

\* The outcome of register(): its requests, whether it raised ValueError,
\* and what the server holds afterwards.
Registered(requests, raised, st) ==
    [requests |-> requests, raised |-> raised, st |-> st]

\* ZanataRestService.query of a resource the server holds or not.
query(what, held, net) ==
    Request("GET", what,
            IF net = "conn" THEN "conn" ELSE IF held THEN "200" ELSE "404")

\* ZanataRestService.push
push(what, net) ==
    Request("PUT", what,
            IF net = "conn" THEN "conn" ELSE IF net = "refused" THEN "403"
            ELSE "201")

\* has_master and register_master_iteration, the second half of register.
register_master(requests, st, e) ==
    LET q == query("master", st.master, e.get_master)
        p == push("master", e.put_master)
    IN  IF q.status = "conn" THEN Registered(requests \o <<q>>, TRUE, st)
        ELSE IF q.status = "200" THEN Registered(requests \o <<q>>, FALSE, st)
        ELSE IF p.status = "201"
        THEN Registered(requests \o <<q, p>>, FALSE, [st EXCEPT !.master = TRUE])
        ELSE Registered(requests \o <<q, p>>, TRUE, st)

\* A register that goes on to the master iteration when the registration
\* of the project has failed.
register_on(st, e) ==
    LET q == query("project", st.registered, e.get_project)
        p == push("project", e.put_project)
    IN  IF q.status = "conn" THEN Registered(<<q>>, TRUE, st)
        ELSE IF q.status = "200" THEN register_master(<<q>>, st, e)
        ELSE IF p.status = "201"
        THEN register_master(<<q, p>>, [st EXCEPT !.registered = TRUE], e)
        ELSE register_master(<<q, p>>, st, e)

\* TranslationProject.register
register(st, e) ==
    LET q == query("project", st.registered, e.get_project)
        p == push("project", e.put_project)
    IN  IF q.status = "conn" THEN Registered(<<q>>, TRUE, st)
        ELSE IF q.status = "200" THEN register_master(<<q>>, st, e)
        ELSE IF p.status = "201"
        THEN register_master(<<q, p>>, [st EXCEPT !.registered = TRUE], e)
        ELSE Registered(<<q, p>>, TRUE, st)

InitZanata ==
    /\ zn_pc = "loop"
    /\ zn_run = "first"
    /\ zn_entries \in
          UNION {{[i \in 1..n |-> [name |-> ZanataProjects[i],
                                    has_translations |-> h[i]]] :
                  h \in [1..n -> has_translations]} :
                 n \in 1..Len(ZanataProjects)}
    /\ zn_i = 1
    /\ zn_server \in [{ZanataProjects[i] : i \in 1..Len(ZanataProjects)}
                        -> ZanataStates]
    /\ zn_requests = <<>>
    /\ zn_raised = FALSE
    /\ zn_succeeded = {}

\* One pass of for entry in registry.configs_list: register() in a try
\* whose handler logs the ValueError.
zn_entry ==
    /\ zn_pc = "loop"
    /\ zn_i <= Len(zn_entries)
    /\ LET entry == zn_entries[zn_i]
       IN  IF ~entry.has_translations
           THEN /\ zn_requests' = <<>>
                /\ zn_raised' = FALSE
                /\ UNCHANGED <<zn_server, zn_succeeded>>
           ELSE \E e \in ZanataEnv :
                  LET r == register(zn_server[entry.name], e)
                  IN  /\ zn_requests' = r.requests
                      /\ zn_raised' = r.raised
                      /\ zn_server' = [zn_server EXCEPT ![entry.name] = r.st]
                      /\ zn_succeeded' = IF r.raised THEN zn_succeeded
                                         ELSE zn_succeeded \cup {entry.name}
    /\ zn_i' = zn_i + 1
    /\ UNCHANGED <<zn_pc, zn_run, zn_entries>>
    /\ UNCHANGED offZanata

\* The script is run again, later, with the same registry.
zn_rerun ==
    /\ zn_pc = "loop"
    /\ zn_i > Len(zn_entries)
    /\ zn_run = "first"
    /\ zn_run' = "second"
    /\ zn_i' = 1
    /\ zn_requests' = <<>>
    /\ zn_raised' = FALSE
    /\ UNCHANGED <<zn_pc, zn_entries, zn_server, zn_succeeded>>
    /\ UNCHANGED offZanata

\* The end of the second run.
zn_end ==
    /\ zn_pc = "loop"
    /\ zn_i > Len(zn_entries)
    /\ zn_run = "second"
    /\ zn_pc' = "done"
    /\ UNCHANGED <<zn_run, zn_entries, zn_i, zn_server, zn_requests, zn_raised,
                   zn_succeeded>>
    /\ UNCHANGED offZanata

NextZanata == zn_entry \/ zn_rerun \/ zn_end
\* ==== end of Zanata registration (translations.py, cmd/register_zanata_projects.py)

\* =========================================================================
\*  The environment of the commands (utils.py, cmd/manage_projects.py)

MaxCommands == 3

EnvNames == {"GIT_SSH", "HOME"}
EnvValues == {"wrapper1", "wrapper2"}

\* The env argument of run_command: None, or a dict that names some of the
\* variables ("absent" for one it does not name).
NoOverride == [given |-> FALSE, dict |-> [n \in EnvNames |-> "absent"]]

EnvArguments ==
    {NoOverride} \cup
    [given : {TRUE}, dict : [EnvNames -> EnvValues \cup {"absent"}]]

\* env = env or {}
env_or_empty(env) ==
    IF env.given THEN env.dict ELSE [n \in EnvNames |-> "absent"]

\* dict.update
update(d, env) ==
    [n \in EnvNames |-> IF env[n] = "absent" THEN d[n] ELSE env[n]]

\* A run_command that merges the override into a copy of os.environ:
\* the environment of the command and os.environ afterwards.
run_command_copy(environ, env) ==
    [newenv |-> update(environ, env_or_empty(env)), environ |-> environ]

\* run_command: newenv is os.environ itself, and update changes it.
run_command(environ, env) ==
    [newenv |-> update(environ, env_or_empty(env)),
     environ |-> update(environ, env_or_empty(env))]

InitEnviron ==
    /\ os_environ \in [EnvNames -> {"unset", "inherited"}]
    /\ rc_count = 0
    /\ rc_env = os_environ
    /\ rc_override = NoOverride
    /\ rc_latest = [n \in EnvNames |-> "absent"]

\* One call of run_command, run_command_status, git_command or
\* git_command_output.
rc_run_command ==
    /\ rc_count < MaxCommands
    /\ \E env \in EnvArguments :
         LET r == run_command(os_environ, env)
         IN  /\ rc_override' = env
             /\ rc_env' = r.newenv
             /\ os_environ' = r.environ
             /\ rc_latest' = update(rc_latest, env_or_empty(env))
    /\ rc_count' = rc_count + 1
    /\ UNCHANGED offEnviron

NextEnviron == rc_run_command
\* ==== end of The environment of the commands (utils.py, cmd/manage_projects.py)

\* =========================================================================
\*  The bug hook: one Task for each bug (find_bugs)

MaxRefs == 3

BugNumbers == {"555555", "555"}
BugTargets == {<<"nova">>, <<"glance">>}
RefPrefixes == {None, <<"Related", "-">>}

\* registry[project]['options']: has_options is FALSE when the lookup
\* raises KeyError.
RegistryOptions ==
    {[has_options |-> FALSE, options |-> {}]} \cup
    [has_options : {TRUE},
     options : {{}, {"no-launchpad-bugs"}, {"no-launchpad-blueprints"}}]

\* p.is_no_launchpad_bugs
is_no_launchpad_bugs(entry) ==
    IF entry.has_options THEN "no-launchpad-bugs" \in entry.options ELSE FALSE

\* p.project_to_groups(project): the group names of the project.
project_to_groups == SUBSET BugTargets

\* launchpad.bugs[bug_num]: known is FALSE for a bug whose lookup raises
\* KeyError; bug_tasks holds the bug_target_name of each task.
LpBugs ==
    {[known |-> FALSE, bug_tasks |-> <<>>]} \cup
    [known : {TRUE},
     bug_tasks : UNION {[1..n -> BugTargets] : n \in 1..2}]

Match(prefix, bug_number) == [prefix |-> prefix, bug_number |-> bug_number]

NoTask == [found |-> FALSE, bug |-> "", lp_task |-> 0, changes_needed |-> {}]

\* Task(lp_task, prefix), lp_task the k-th bug task of the bug.
Task(bug_num, k, prefix) ==
    [found |-> TRUE, bug |-> bug_num, lp_task |-> k,
     changes_needed |-> Task_init(prefix)]

\* for lp_task in lp_bug.bug_tasks ... break: the first task whose target
\* is in projects, 0 when there is none or the bug is unknown.
first_in_projects(lp_bug, projects) ==
    LET hits == {k \in 1..Len(lp_bug.bug_tasks) : lp_bug.bug_tasks[k] \in projects}
    IN  IF ~lp_bug.known \/ hits = {} THEN 0
        ELSE CHOOSE k \in hits : \A m \in hits : k <= m

\* The body of the loop without "if bug_num not in bugtasks".
for_match_again(tasks, launchpad, projects, match) ==
    LET k == first_in_projects(launchpad[match.bug_number], projects)
    IN  IF k = 0 THEN tasks
        ELSE [tasks EXCEPT ![match.bug_number] =
                  Task(match.bug_number, k, match.prefix)]

\* The body of for match in matches.
for_match(tasks, launchpad, projects, match) ==
    LET k == first_in_projects(launchpad[match.bug_number], projects)
    IN  IF tasks[match.bug_number].found THEN tasks
        ELSE IF k = 0 THEN tasks
        ELSE [tasks EXCEPT ![match.bug_number] =
                  Task(match.bug_number, k, match.prefix)]

InitTasks ==
    /\ ft_pc = "find_bugs"
    /\ ft_entry \in RegistryOptions
    /\ ft_projects \in project_to_groups
    /\ ft_launchpad \in [BugNumbers -> LpBugs]
    /\ ft_matches \in UNION {[1..n -> {Match(x, b) : x \in RefPrefixes, b \in BugNumbers}] :
                             n \in 0..MaxRefs}
    /\ ft_i = 1
    /\ bugtasks = [b \in BugNumbers |-> NoTask]
    /\ ft_returned = {}

\* if p.is_no_launchpad_bugs(project): return []
ft_find_bugs ==
    /\ ft_pc = "find_bugs"
    /\ ft_pc' = IF is_no_launchpad_bugs(ft_entry) THEN "returned" ELSE "for"
    /\ UNCHANGED <<ft_entry, ft_projects, ft_launchpad, ft_matches, ft_i,
                   bugtasks, ft_returned>>
    /\ UNCHANGED offTasks

\* One pass of for match in matches.
ft_match ==
    /\ ft_pc = "for"
    /\ ft_i <= Len(ft_matches)
    /\ bugtasks' = for_match(bugtasks, ft_launchpad, ft_projects, ft_matches[ft_i])
    /\ ft_i' = ft_i + 1
    /\ UNCHANGED <<ft_pc, ft_entry, ft_projects, ft_launchpad, ft_matches,
                   ft_returned>>
    /\ UNCHANGED offTasks

\* return bugtasks.values()
ft_return ==
    /\ ft_pc = "for"
    /\ ft_i > Len(ft_matches)
    /\ ft_returned' = {bugtasks[b] : b \in {n \in BugNumbers : bugtasks[n].found}}
    /\ ft_pc' = "returned"
    /\ UNCHANGED <<ft_entry, ft_projects, ft_launchpad, ft_matches, ft_i,
                   bugtasks>>
    /\ UNCHANGED offTasks

NextTasks == ft_find_bugs \/ ft_match \/ ft_return
\* ==== end of The bug hook: one Task for each bug (find_bugs)

\* =========================================================================
\*  Specifications
\* =========================================================================
\* A script family that is not running.
IdleSync ==
    /\ script = "none"
    /\ pc = "idle"
    /\ idx = 1
    /\ section = NoSection
    /\ project_list = {}
    /\ ssh_wrapper = "none"
    /\ unlinks = 0
    /\ project_created = FALSE
    /\ push_string = Unbound
    /\ log = <<>>
    /\ failed_before = FALSE
    /\ interrupted = FALSE
    /\ args_projects = {}
    /\ GERRIT_REPLICATE = TRUE
    /\ default_has_github = TRUE
    /\ project_cache = [p \in ProjectIds |-> CacheAbsent]
    /\ cache_at_start = project_cache
    /\ work_dirs = {}

IdleRegistry ==
    /\ yaml_doc = <<>>
    /\ single_doc = TRUE
    /\ ini = NoIni
    /\ reg_pc = "idle"
    /\ self_configs_list = <<>>
    /\ self_defaults = NoOpts
    /\ reg_call = NoCall
    /\ reg_ret = PyNone
    /\ listed = <<>>
    /\ acted = <<>>

IdleWelcome ==
    /\ wel_pc = "idle"
    /\ uploader = <<>>
    /\ patchset = ""
    /\ wel_dryrun = FALSE
    /\ patch_sets = {}
    /\ account_external_ids = {}
    /\ newbie = FALSE
    /\ posted = 0

IdleImpact ==
    /\ imp_pc = "idle"
    /\ args = NoArgs
    /\ git_log = <<>>
    /\ bugs = <<>>
    /\ printed = 0
    /\ mails = 0
    /\ lp_titles = {}

IdleBug ==
    /\ ub_pc = "idle"
    /\ ub_args = NoUbArgs
    /\ task_prefix = None
    /\ changes_needed = {}
    /\ bugtask_status = "New"
    /\ related_tasks = <<>>
    /\ bug_tags = {}
    /\ applied = <<>>

IdleRefs ==
    /\ fb_pc = "idle"
    /\ fb_git_log = <<>>
    /\ fb_pos = 1
    /\ fb_matches = <<>>

\* ---- the remaining scripts, none of them running
IdleExpire ==
    /\ er_pc = "idle"
    /\ er_stdout = <<>>
    /\ er_line = 0
    /\ er_expired = <<>>

IdleClose ==
    /\ cp_pc = "idle"
    /\ cp_sections = <<>>
    /\ cp_i = 0
    /\ cp_req = 0
    /\ cp_calls = <<>>

IdleZanata ==
    /\ zn_pc = "idle"
    /\ zn_run = "none"
    /\ zn_entries = <<>>
    /\ zn_i = 0
    /\ zn_server = <<>>
    /\ zn_requests = <<>>
    /\ zn_raised = FALSE
    /\ zn_succeeded = {}

IdleEnviron ==
    /\ os_environ = <<>>
    /\ rc_count = 0
    /\ rc_env = <<>>
    /\ rc_override = <<>>
    /\ rc_latest = <<>>

IdleTasks ==
    /\ ft_pc = "idle"
    /\ ft_entry = <<>>
    /\ ft_projects = {}
    /\ ft_launchpad = <<>>
    /\ ft_matches = <<>>
    /\ ft_i = 0
    /\ bugtasks = <<>>
    /\ ft_returned = {}

IdleFinal == IdleExpire /\ IdleClose /\ IdleZanata /\ IdleEnviron /\ IdleTasks
\* ---- end of the idle predicates of the remaining scripts

\* The later script families, none of them running.
IdleMiddle == IdleBug /\ IdleRefs /\ IdleAcl /\ IdleCopy /\ IdleGithub
IdleLater == IdleMiddle /\ IdleFinal

vars == <<syncVars, registryVars, welcomeVars, impactVars, laterVars>>

\* A run of a synchronizer.
Init == InitSync /\ IdleRegistry /\ IdleWelcome /\ IdleImpact /\ IdleLater
Spec == Init /\ [][NextSync]_vars

\* A script loading and reading the registry.
InitR == IdleSync /\ InitRegistry /\ IdleWelcome /\ IdleImpact /\ IdleLater
SpecRegistry == InitR /\ [][NextRegistry]_vars

\* One invocation of the welcome-message hook.
InitW == IdleSync /\ IdleRegistry /\ InitWelcome /\ IdleImpact /\ IdleLater
SpecWelcome == InitW /\ [][NextWelcome]_vars

\* One invocation of the impact hook.
InitI == IdleSync /\ IdleRegistry /\ IdleWelcome /\ InitImpact /\ IdleLater
SpecImpact == InitI /\ [][NextImpact]_vars

\* The four earlier script families, none of them running.
IdleEarlier == IdleSync /\ IdleRegistry /\ IdleWelcome /\ IdleImpact

\* One bug task through the bug hook.
InitB == IdleEarlier /\ InitBug /\ IdleRefs /\ IdleAcl /\ IdleCopy /\ IdleGithub
         /\ IdleFinal
SpecBug == InitB /\ [][NextBug]_vars

\* Hook invocations on one bug, one after the other.
InitH == IdleEarlier /\ InitHooks /\ IdleRefs /\ IdleAcl /\ IdleCopy /\ IdleGithub
         /\ IdleFinal
SpecHooks == InitH /\ [][NextHooks]_vars

\* find_bugs reading one commit log.
InitF == IdleEarlier /\ IdleBug /\ InitRefs /\ IdleAcl /\ IdleCopy /\ IdleGithub
         /\ IdleFinal
SpecRefs == InitF /\ [][NextRefs]_vars

\* The ACL reconciliation of one project; a step that can be taken is taken
\* (the script runs on: every command and query returns).
InitA == IdleEarlier /\ IdleBug /\ IdleRefs /\ InitAcl /\ IdleCopy /\ IdleGithub
         /\ IdleFinal
SpecAcl == InitA /\ [][NextAcl]_vars
SpecAclLive == SpecAcl /\ WF_vars(NextAcl)

\* One call of make_local_copy.
InitC == IdleEarlier /\ IdleBug /\ IdleRefs /\ IdleAcl /\ InitCopy /\ IdleGithub
         /\ IdleFinal
SpecCopy == InitC /\ [][NextCopy]_vars

\* One call of create_github_project.
InitG == IdleEarlier /\ IdleBug /\ IdleRefs /\ IdleAcl /\ IdleCopy /\ InitGithub
         /\ IdleFinal
SpecGithub == InitG /\ [][NextGithub]_vars

\* ---- runs of the remaining scripts
\* One run of expire_old_reviews.
InitE ==
    IdleEarlier /\ IdleMiddle
    /\ InitExpire /\ IdleClose /\ IdleZanata /\ IdleEnviron /\ IdleTasks
SpecExpire == InitE /\ [][NextExpire]_vars

\* One run of close_pull_requests.
InitP ==
    IdleEarlier /\ IdleMiddle
    /\ IdleExpire /\ InitClose /\ IdleZanata /\ IdleEnviron /\ IdleTasks
SpecClose == InitP /\ [][NextClose]_vars

\* Two runs of register_zanata_projects against one server.
InitZ ==
    IdleEarlier /\ IdleMiddle
    /\ IdleExpire /\ IdleClose /\ InitZanata /\ IdleEnviron /\ IdleTasks
SpecZanata == InitZ /\ [][NextZanata]_vars

\* Commands run one after another by one process.
InitV ==
    IdleEarlier /\ IdleMiddle
    /\ IdleExpire /\ IdleClose /\ IdleZanata /\ InitEnviron /\ IdleTasks
SpecEnviron == InitV /\ [][NextEnviron]_vars

\* find_bugs over the references of a commit log.
InitT ==
    IdleEarlier /\ IdleMiddle
    /\ IdleExpire /\ IdleClose /\ IdleZanata /\ IdleEnviron /\ InitTasks
SpecTasks == InitT /\ [][NextTasks]_vars

\* ---- end of the runs of the remaining scripts

\* =========================================================================
\*  Properties of the synchronizers (specification Spec)
\* =========================================================================
\* The commands issued so far for the current project.
Ops(l) == {l[k].op : k \in 1..Len(l)}

\* pats occur in l in this order (not necessarily next to each other).
RECURSIVE InOrderFrom(_, _, _, _)
InOrderFrom(l, pats, i, j) ==
    IF j > Len(pats) THEN TRUE
    ELSE IF i > Len(l) THEN FALSE
    ELSE IF l[i] = pats[j] THEN InOrderFrom(l, pats, i + 1, j + 1)
    ELSE InOrderFrom(l, pats, i + 1, j)
InOrder(l, pats) == InOrderFrom(l, pats, 1, 1)

AclReconciliationOps ==
    {"fetch +refs/meta/config", "remote update --prune",
     "ls-files project.config", "checkout -B config",
     "cp acl_config project.config", "diff --quiet", "get_group_uuid",
     "add groups", "commit -a -m'Update project config.'",
     "push HEAD:refs/meta/config"}
GithubCreationOps ==
    {"github.get_orgs", "github.get_repo", "github.create_repo",
     "github.repo.edit", "github.get_teams", "github.add_to_repos"}
PushToGerritOps ==
    {"push", "push --tags", "push origin refs/heads/*:refs/heads/*",
     "push origin --tags"}

\* C1: for a project that Gerrit has, whose progress-cache entry says
\* pushed-to-gerrit and whose ACL file was not found changed, a run of
\* manage_projects issues no command of the ACL reconciliation and none of
\* the GitHub repository creation.
C1_IdempotentRerun ==
    (/\ script = "manage_projects"
     /\ section # NoSection
     /\ section.project \in project_list
     /\ cache_at_start[section.project] = CachePushed
     /\ "get_group_uuid" \notin Ops(log))
    => Ops(log) \cap (AclReconciliationOps \cup GithubCreationOps) = {}

\* C2: in both synchronizers, every push of a project's refs to Gerrit
\* (push_to_gerrit, sync_upstream) comes after a git fsck --full of that
\* project that returned 0 and did not print zeroPaddedFilemode.
C2_FsckBeforePush ==
    \A k \in 1..Len(log) :
       log[k].op \in PushToGerritOps
       => \E j \in 1..(k - 1) :
             log[j].op = "fsck --full" /\ log[j].arg = FsckClean

\* The same gate in track_upstream alone.
C2_FsckBeforePush_track_upstream ==
    script = "track_upstream" => C2_FsckBeforePush

\* The steps (a) to (c) of the new-project scenario, in their order.
C3_Steps(project) ==
    <<Api("gerrit.createProject"),
      Git("git init"),
      Ev("write .gitreview", <<GERRIT_HOST, GERRIT_PORT>> \o project \o <<".git">>,
         FALSE),
      Git("commit -a -m'Added .gitreview'"),
      Ev("push", <<"push %s HEAD:refs/heads/master", "ssh://", GERRIT_HOST, ":",
                   GERRIT_PORT, "/">> \o project, TRUE),
      Ev("push --tags", <<"ssh://", GERRIT_HOST, ":", GERRIT_PORT, "/">> \o project,
         TRUE)>>

C3_NewProject ==
    /\ script = "manage_projects"
    /\ pc = "end"
    /\ section.upstream = None
    /\ section.project \notin project_list
    /\ cache_at_start[section.project] = CacheAbsent

\* C3: a project without upstream that Gerrit does not list and the cache
\* does not know is, by the end of its iteration, created in Gerrit,
\* initialised locally with a committed .gitreview, pushed as
\* HEAD:refs/heads/master with its tags, in this order, and recorded in the
\* progress cache as project-created and pushed-to-gerrit.
C3_NewProjectScenario ==
    C3_NewProject
    => /\ InOrder(log, C3_Steps(section.project))
       /\ project_cache[section.project] = CachePushed

\* The steps of the scenario without the record in the cache.
C3_StepsInOrder ==
    C3_NewProject => InOrder(log, C3_Steps(section.project))

\* What the record and Gerrit's project list require of an iteration of
\* manage_projects that reaches its end.
C6_Required(sec, plist, replicate) ==
    (IF sec.project \notin plist
     THEN {"gerrit.createProject", "push", "push --tags"}
          \cup (IF replicate THEN {"gerrit.replicate"} ELSE {})
     ELSE {})
    \cup (IF "track-upstream" \in sec.options
          THEN {"remote update upstream --prune",
                "push origin refs/heads/*:refs/heads/*", "push origin --tags"}
          ELSE {})

\* C6: an Exception in one project does not end the run and does not change
\* what a later project gets: the loop reaches the end of the registry, an
\* iteration that ends has run every step its record requires, and the push
\* template it uses is its own, not one left by an earlier project.
C6_FailureIsolation ==
    /\ pc = "done" => idx = NumProjects + 1
    /\ (pc = "end" /\ script = "manage_projects")
       => /\ C6_Required(section, project_list, GERRIT_REPLICATE) \subseteq Ops(log)
          /\ (default_has_github \/ "has-github" \in section.options)
             => "github.get_orgs" \in Ops(log)
    /\ (pc = "end" /\ script = "track_upstream")
       => {"fsck --full", "remote update upstream --prune",
           "push origin --tags"} \subseteq Ops(log)
    /\ (pc = "push_to_gerrit" /\ project_created)
       => push_string = IF section.upstream # None THEN PushCopyHeads
                        ELSE PushMaster

\* The second project runs to its end, creation and push included, after
\* the first one failed.
C6_Witness ==
    /\ failed_before
    /\ script = "manage_projects"
    /\ pc = "end"
    /\ idx = NumProjects
    /\ {"gerrit.createProject", "push", "github.get_orgs"} \subseteq Ops(log)

\* C7: the SSH wrapper exists during the whole loop and is deleted exactly
\* once when the loop is left, whether the registry was exhausted (with or
\* without failed projects) or an exception escaped; no command run with
\* the wrapper in its environment is issued once it is deleted.
C7_WrapperDeletedOnce ==
    /\ unlinks <= 1
    /\ pc \in {"done", "raised"} => (unlinks = 1 /\ ssh_wrapper = "deleted")
    /\ pc \in {"loop", "begin", "except", "end", "finally"} \cup BodyPcs
       => (unlinks = 0 /\ ssh_wrapper = "exists")
    /\ (unlinks = 1 /\ ~interrupted) => idx > NumProjects
    /\ (\E k \in 1..Len(log) : log[k].env) => ssh_wrapper = "exists"

\* An exception escaped the loop after a project had failed, and the
\* wrapper is gone.
C7_Witness ==
    /\ pc = "raised"
    /\ failed_before
    /\ unlinks = 1
    /\ ssh_wrapper = "deleted"

\* C8: every started ACL reconciliation (its first command is the fetch of
\* refs/meta/config) is followed, with nothing but its own commands in
\* between, by reset --hard, checkout master and branch -D config, in this
\* order, before any other step of the project.
C8_AclCleanup ==
    \A k \in 1..Len(log) :
       log[k].op = "fetch +refs/meta/config"
       => \E j \in (k + 1)..(Len(log) - 2) :
             /\ log[j].op = "reset --hard"
             /\ log[j + 1].op = "checkout master"
             /\ log[j + 2].op = "branch -D config"
             /\ \A m \in (k + 1)..(j - 1) : log[m].op \in AclReconciliationOps

\* The early return (nothing to copy) was followed by the cleanup.
C8_Witness ==
    /\ pc = "github"
    /\ "diff --quiet" \in Ops(log)
    /\ "get_group_uuid" \notin Ops(log)
    /\ log[Len(log)].op = "branch -D config"

\* =========================================================================
\*  Properties of the registry loader (specification SpecRegistry)
\* =========================================================================
\* The number of '/' in a project id.
SlashCount(project) == Cardinality({i \in 1..Len(project) : project[i] = "/"})

\* A retired record: the acl-config ends in '/retired.config', or the id is
\* org/name and org ends in '-attic'.
C4_Retired(r) ==
    \/ /\ r.acl_config # None
       /\ Len(r.acl_config) >= 2
       /\ r.acl_config[Len(r.acl_config) - 1] = "/"
       /\ r.acl_config[Len(r.acl_config)] = "retired.config"
    \/ /\ SlashCount(r.project) = 1
       /\ LET k == CHOOSE i \in 1..Len(r.project) : r.project[i] = "/"
          IN  k > 1 /\ r.project[k - 1] = "-attic"

\* The project records of the file, and the positions of those not retired.
C4_Loaded == IF single_doc THEN yaml_doc[1] ELSE yaml_doc[2]
C4_Kept == {i \in 1..Len(C4_Loaded) : ~C4_Retired(C4_Loaded[i])}

C5_Stored(item) ==
    IF ini # NoIni THEN ini[item]
    ELSE IF yaml_doc[1] = <<>> THEN Missing
    ELSE yaml_doc[1][1].opts[item]

C9_HasEmail == Contains(uploader, "(") /\ uploader[Len(uploader)] = ")"
C9_Email == <<uploader[Len(uploader) - 1]>>

\* The distinct (change, patch set) pairs uploaded by an account that owns
\* the e-mail.
C9_PatchSetsOf(email) ==
    {<<p.change_id, p.patch_set_id>> :
        p \in {q \in patch_sets :
                 \E a \in account_external_ids :
                    /\ a.email_address = email
                    /\ a.account_id = q.uploader_account_id}}

\* C9: is_newbie is true exactly when the uploader string carries an e-mail
\* in parentheses and the accounts owning it uploaded exactly one distinct
\* (change, patch set) pair.
C9_NewbieIffOnePatchSet ==
    wel_pc \in {"checked", "done"}
    => (newbie <=> (C9_HasEmail /\ Cardinality(C9_PatchSetsOf(C9_Email)) = 1))

\* =========================================================================
\*  Properties of the impact hook (specification SpecImpact)
\* =========================================================================
\* The part of a name after its last '/'.
LastSegment(name) ==
    LET slashes == {i \in 1..Len(name) : name[i] = "/"}
        last == IF slashes = {} THEN 0
                ELSE CHOOSE i \in slashes : \A j \in slashes : j <= i
    IN  SubSeq(name, last + 1, Len(name))

\* A merged change of a project org/name whose log carries the DocImpact tag.
C10_DocImpactMerged ==
    /\ args.hook = "change-merged"
    /\ Lower(args.impact) = "docimpact"
    /\ \E i \in 1..Len(git_log) : Lower(git_log[i]) = "docimpact"
    /\ SlashCount(args.project) = 1
    /\ args.project[Len(args.project)] # "/"

C10_WitnessManuals ==
    /\ imp_pc = "done"
    /\ args.project = <<"org", "/", "name">>
    /\ Len(bugs) = 1
    /\ bugs[1].target = <<"openstack-manuals">>
    /\ bugs[1].tags = [kind |-> "str", items |-> << <<"name">> >>]

\* =========================================================================
\*  Properties of the bug hook (specification SpecBug)
\* =========================================================================
\* The status changes the hook made, on the bug task or a related task.
StatusChangesDone ==
    {applied[k].what : k \in 1..Len(applied)} \cap StatusChanges

\* C11: every status change applied to a bug task is one the reference's
\* prefix permits; a side-note-only or comment-only reference changes no
\* status on any hook or branch.
C11_OnlyPermittedChanges ==
    ub_pc = "done" => StatusChangesDone \subseteq changes_needed

\* A change merged to a branch that is neither master nor proposed/*.
C20_SeriesMerge ==
    /\ ub_args.hook = "change-merged"
    /\ ub_args.branch # <<"master">>
    /\ ~(Len(ub_args.branch) >= 2 /\ SubSeq(ub_args.branch, 1, 2) = <<"proposed", "/">>)

\* The related tasks of the branch's series that may be marked Fix Committed.
C20_Eligible ==
    {k \in 1..Len(related_tasks) :
        /\ EndsWith(related_tasks[k].bug_target_name, LastSegment(ub_args.branch))
        /\ related_tasks[k].status # "Fix Released"
        /\ "set_fix_committed" \in changes_needed}

\* The tag of a branch: "in-" and the branch with "-" for "/".
C20_Tag ==
    <<"in", "-">> \o [k \in 1..Len(ub_args.branch) |->
                        IF ub_args.branch[k] = "/" THEN "-" ELSE ub_args.branch[k]]

\* C20: on change-merged to a series branch the first eligible related task
\* of the series is marked Fix Committed and the bug is not tagged; the bug
\* gets the tag in-<branch>, and no other, only when no related task was
\* updated; on master and proposed/* the bug is never tagged.
C20_RelatedBeforeTag ==
    [][(ub_pc = "process_bugtask" /\ ub_args.hook = "change-merged") =>
         IF C20_SeriesMerge
         THEN IF C20_Eligible # {}
              THEN LET first == CHOOSE k \in C20_Eligible :
                                    \A j \in C20_Eligible : k <= j
                   IN  /\ related_tasks' = [related_tasks EXCEPT
                                                ![first].status = "Fix Committed"]
                       /\ bug_tags' = bug_tags
              ELSE /\ related_tasks' = related_tasks
                   /\ bug_tags' \subseteq bug_tags \cup {C20_Tag}
         ELSE /\ bug_tags' = bug_tags
              /\ related_tasks' = related_tasks]_vars

\* A merge to stable/grizzly updated the second related task, the first one
\* of the series being already released, and left the bug untagged.
C20_Witness ==
    /\ ub_pc = "done"
    /\ C20_SeriesMerge
    /\ \E k \in 1..Len(applied) : applied[k] = Did("set_fix_committed", 2)
    /\ related_tasks[1].status = "Fix Released"
    /\ EndsWith(related_tasks[1].bug_target_name, LastSegment(ub_args.branch))
    /\ bug_tags = {}

\* A merge to a series branch without an eligible related task tagged the bug.
C20_WitnessTagged ==
    /\ ub_pc = "done"
    /\ C20_SeriesMerge
    /\ bug_tags = {C20_Tag}
    /\ related_tasks # <<>>

\* =========================================================================
\*  Properties of find_bugs (specification SpecRefs)
\* =========================================================================
\* The lines of the commit log, and where line n starts in it.
C12_Lines == Split(fb_git_log, "\n")
RECURSIVE C12_StartOf(_)
C12_StartOf(n) ==
    IF n = 1 THEN 1 ELSE C12_StartOf(n - 1) + Len(C12_Lines[n - 1]) + 1

\* The matches whose bug number stands on line n.
C12_MatchesOf(n) ==
    {k \in 1..Len(fb_matches) :
        /\ fb_matches[k].number_at >= C12_StartOf(n)
        /\ fb_matches[k].number_at < C12_StartOf(n) + Len(C12_Lines[n])}

\* The four reference lines with the bug number and the keyword of each.
C12_Expected ==
    {[line |-> <<"Closes", "-", "Bug", ":", " ", "555555">>,
      bug_number |-> "555555", keyword |-> "closes"],
     [line |-> <<"bug", " ", "#", " ", "555555">>,
      bug_number |-> "555555", keyword |-> "closes"],
     [line |-> <<"Partial", "-", "Bug", ":", " ", "lp", " ", "bug", " ", "#",
                 " ", "555555">>,
      bug_number |-> "555555", keyword |-> "partial"],
     [line |-> <<"Fixes", ":", " ", "bug", " ", "#", " ", "555">>,
      bug_number |-> "555", keyword |-> "fixes"]}

\* Line n of the log yields exactly the one match the reference x stands for.
C12_Yields(n, x) ==
    /\ Cardinality(C12_MatchesOf(n)) = 1
    /\ \A k \in C12_MatchesOf(n) :
           /\ fb_matches[k].bug_number = x.bug_number
           /\ Task_prefix(fb_matches[k].prefix) = x.keyword

\* A line with a number but neither 'bug' nor 'lp' before it.
C12_NoBugWord(line) ==
    /\ \E k \in 1..Len(line) : line[k] \in DigitTokens
    /\ \A k \in 1..Len(line) : Lower(line[k]) \notin {"bug", "lp"}

\* C12: each of the four reference lines, on its own line of a commit log,
\* yields exactly one match with that line's bug number and the keyword
\* closes, closes, partial, fixes; a line without 'bug' or 'lp' before the
\* number yields no match.
C12_ReferenceLines ==
    fb_pc = "done" =>
        \A n \in 1..Len(C12_Lines) :
            /\ \A x \in C12_Expected : C12_Lines[n] = x.line => C12_Yields(n, x)
            /\ C12_NoBugWord(C12_Lines[n]) => C12_MatchesOf(n) = {}

\* The same, for a log that is one of the four lines and nothing else.
C12_SingleLine ==
    (fb_pc = "done" /\ Len(C12_Lines) = 1) =>
        /\ \A x \in C12_Expected : C12_Lines[1] = x.line => C12_Yields(1, x)
        /\ C12_NoBugWord(C12_Lines[1]) => C12_MatchesOf(1) = {}

\* =========================================================================
\*  Properties of the registry's two shapes (specification SpecRegistry)
\* =========================================================================
\* The options of the defaults document of a two-document file.
C13_DefaultsDocument ==
    IF yaml_doc[1] = <<>> THEN NoOpts ELSE yaml_doc[1][1].opts

\* C13: a single-document file is the project list; of a two-document file
\* the second document is the project list and the first the defaults; in
\* both shapes the defaults are those of the INI overlay when it exists,
\* else those of the defaults document, and never those of a project record.
C13_TwoShapes ==
    reg_pc \notin {"new", "init raised"} =>
        /\ self_configs_list = IF single_doc THEN yaml_doc[1] ELSE yaml_doc[2]
        /\ self_defaults = IF ini # NoIni THEN ini
                           ELSE IF single_doc THEN NoOpts
                           ELSE C13_DefaultsDocument

\* =========================================================================
\*  Further properties of the synchronizers (specification Spec)
\* =========================================================================
\* C14: the working directory of a project is removed at the end of the
\* project on every outcome: between two projects and after the run no
\* working directory is on disk.
C14_WorkDirRemoved ==
    (script = "manage_projects" /\ pc \in {"loop", "finally", "done"})
        => work_dirs = {}

\* =========================================================================
\*  Properties of the ACL reconciliation (SpecAcl, SpecAclLive)
\* =========================================================================
\* No polling loop makes more than its 10 attempts, and fetch_config that
\* ran out of attempts has not checked out the config branch.
C15_Bounded ==
    /\ acl_pc = "fetch" => acl_x < FetchAttempts
    /\ acl_pc = "find" => acl_x < FindAttempts
    /\ acl_pc \in {"_get_group_uuid", "_get_group_uuid again"}
           => acl_x < QueryAttempts
    /\ acl_x <= 10
    /\ (acl_raised = "FetchConfigException" /\ acl_x = 10)
           => "checkout -B config" \notin acl_ops

\* A loop of fetch_config ends at its first success, and raises
\* FetchConfigException at the failure of its tenth attempt;
\* _get_group_uuid gives up only at its tenth miss.
C15_Step ==
    /\ (acl_pc = "fetch" /\ acl_status' = 0) => acl_pc' = "find"
    /\ (acl_pc = "fetch" /\ acl_status' # 0) =>
           IF acl_x = 9
           THEN acl_pc' = "finally" /\ acl_raised' = "FetchConfigException"
           ELSE acl_pc' = "fetch" /\ acl_x' = acl_x + 1
    /\ (acl_pc = "find" /\ acl_status' = 0 /\ acl_output' = "project.config"
           /\ acl_pc' # "find") => acl_pc' = "checkout"
    /\ (acl_pc = "find" /\ acl_pc' = "finally") =>
           acl_x = 9 /\ acl_raised' = "FetchConfigException"
    /\ (acl_pc = "find" /\ acl_pc' = "find") => acl_x' = acl_x + 1
    /\ (acl_pc \in {"_get_group_uuid", "_get_group_uuid again"}
           /\ acl_pc' # acl_pc /\ uuids' = uuids) => acl_x = 9

\* C15: fetch_config makes at most 10 attempts to fetch refs/meta/config
\* and at most 10 to find project.config, stops each loop at the first
\* success and raises FetchConfigException, without checking out the
\* config branch, when a budget is used up; _get_group_uuid makes at most
\* 10 queries and returns None after the last miss; every ACL
\* reconciliation terminates.
C15_BoundedPolling ==
    /\ []C15_Bounded
    /\ [][C15_Step]_vars
    /\ <>(acl_pc = "done")

\* Ten fetches of refs/meta/config failed.
C15_Witness ==
    /\ acl_pc = "done"
    /\ acl_raised = "FetchConfigException"
    /\ acl_x = FetchAttempts
    /\ acl_status # 0
    /\ acl_output = ""
    /\ "checkout -B config" \notin acl_ops

\* The groups project.config refers to, and those gerrit.createGroup was
\* called for.
C16_Referenced ==
    {group_of(project_config[k]) : k \in 1..Len(project_config)} \ {NoGroup}
C16_Created == {created_groups[k] : k \in 1..Len(created_groups)}

\* The group was in the database before the reconciliation.
C16_InDatabase(g) == g \in account_groups /\ g \notin C16_Created

\* Every UUID is the database's when the group was there, else the
\* system-group table's, else that of the group created; a group is
\* created once, and never a system group or one of the database; commit
\* and push happen only with every referenced group resolved.
C16_Resolution ==
    /\ \A g \in DOMAIN uuids :
           /\ g \in C16_Referenced
           /\ uuids[g] = IF C16_InDatabase(g) THEN DbUuid(g)
                         ELSE IF g \in DOMAIN GERRIT_SYSTEM_GROUPS
                         THEN GERRIT_SYSTEM_GROUPS[g]
                         ELSE DbUuid(g)
           /\ (~C16_InDatabase(g) /\ g \notin DOMAIN GERRIT_SYSTEM_GROUPS)
                  => g \in C16_Created
    /\ Cardinality(C16_Created) = Len(created_groups)
    /\ C16_Created \cap DOMAIN GERRIT_SYSTEM_GROUPS = {}
    /\ ("commit" \in acl_ops \/ "push HEAD:refs/meta/config" \in acl_ops)
           => C16_Referenced \subseteq DOMAIN uuids

\* The groups file holds one line per distinct referenced group.
C16_OneLinePerGroup ==
    groups_file = {<<uuids[g], g>> : g \in C16_Referenced}

\* C16: group UUIDs come from the database, else the system-group table,
\* else a group created once; no system group is created; the ACL is
\* committed and pushed only with every referenced group resolved, and the
\* groups file then holds exactly one line per distinct referenced group.
C16_GroupsFile ==
    /\ C16_Resolution
    /\ "commit" \in acl_ops => C16_OneLinePerGroup

\* C16, amended: ... and the groups file then holds exactly one line per
\* distinct referenced group when project.config refers to a group; when it
\* refers to none the groups file is left as it was fetched.
C16_GroupsFileWhenReferenced ==
    /\ C16_Resolution
    /\ "commit" \in acl_ops =>
           IF C16_Referenced # {} THEN C16_OneLinePerGroup
           ELSE groups_file \in OldGroupsFiles

\* Committed with two groups referenced, one of them created.
C16_Witness ==
    /\ "commit" \in acl_ops
    /\ Cardinality(C16_Referenced) = 2
    /\ created_groups # <<>>
    /\ Cardinality(groups_file) = 2

\* =========================================================================
\*  Properties of make_local_copy (specification SpecCopy)
\* =========================================================================
\* The commands of the three strategies.
C17_FromGerrit == {"git clone remote_url"}
C17_FromUpstream == {"git clone upstream", "remote rename origin upstream"}
C17_FromScratch == {"git init", "write .gitreview",
                    "commit -a -m'Added .gitreview'"}

\* The one strategy make_local_copy followed: its commands ran, no command
\* of the two others did, and its push template was returned.
C17_Followed(own, others, template) ==
    /\ own \subseteq Ops(lc_ret.ev)
    /\ others \cap Ops(lc_ret.ev) = {}
    /\ ~lc_ret.exc => lc_ret.ret = template

\* The strategy is determined by the project list and the upstream alone.
C17_ByListAndUpstream ==
    IF lc_args.project \in lc_args.project_list
    THEN C17_Followed(C17_FromGerrit, C17_FromUpstream \cup C17_FromScratch,
                      None)
    ELSE IF lc_args.upstream # None
    THEN C17_Followed(C17_FromUpstream \cup {"remote add origin"},
                      C17_FromGerrit \cup C17_FromScratch, PushCopyHeads)
    ELSE C17_Followed(IF lc_ret.exc THEN {"git init"} ELSE C17_FromScratch,
                      C17_FromGerrit \cup C17_FromUpstream, PushMaster)

\* C17: make_local_copy follows exactly one of three strategies, given by
\* whether Gerrit lists the project and whether an upstream is set, returns
\* the push template of that strategy, and a stale local clone is removed
\* first: the working tree is the fresh one.
C17_StrategyOnFreshTree ==
    lc_pc = "returned" => (C17_ByListAndUpstream /\ lc_tree = "fresh")

\* The same without the removal of the stale clone, for manage_projects.
C17_StrategyOfManageProjects ==
    (lc_pc = "returned" /\ lc_args.script = "manage_projects")
        => C17_ByListAndUpstream

\* =========================================================================
\*  Further properties of manage_projects (specification Spec)
\* =========================================================================
\* createProject is called for projects Gerrit does not list only, and after
\* its failure nothing else has been done for the project.
C18_Created ==
    script = "manage_projects" =>
        /\ "gerrit.createProject" \in Ops(log)
               => section.project \notin project_list
        /\ (pc = "except" /\ log # <<>> /\ log[Len(log)].op = "gerrit.createProject")
               => log = <<Api("gerrit.createProject")>>

\* A failing create_gerrit_project leads to the handler, and the handler to
\* the next record of the registry.
C18_Step ==
    script = "manage_projects" =>
        /\ (pc = "create_gerrit_project" /\ pc' \notin {"except", "finally"})
               => (pc' = "create_local_mirror"
                   /\ project_created' = ("gerrit.createProject" \in Ops(log')))
        /\ (pc = "create_gerrit_project" /\ pc' = "except")
               => log' = <<Api("gerrit.createProject")>>
        /\ pc = "except" => (pc' = "loop" /\ idx' = idx + 1 /\ log' = <<>>)

\* C18: when gerrit.createProject fails no later step is performed for the
\* project, the handler is reached and the loop goes on to the next
\* project; a project Gerrit lists is never passed to createProject.
C18_CreationFailure == []C18_Created /\ [][C18_Step]_vars

\* The creation of the first project has failed, with a second to come.
C18_Witness ==
    /\ script = "manage_projects"
    /\ pc = "except"
    /\ idx = 1
    /\ log = <<Api("gerrit.createProject")>>
    /\ section.project \notin project_list

\* =========================================================================
\*  Properties of the GitHub step (specification SpecGithub)
\* =========================================================================
\* C19: after the GitHub step for a project of a managed organization the
\* repository exists, its description, homepage and flags are the desired
\* ones and the 'gerrit' team has access to it, whether it was created in
\* this run or existed before; for an organization that is not managed
\* nothing is created or edited and no replication is triggered.
C19_Mirrored ==
    gh_pc = "done" =>
        IF gh_managed
        THEN /\ gh_repo = Repo(gh_args.description, gh_args.homepage,
                               gh_args.options \cup gh_args.defaults)
             /\ "gerrit" \in gh_teams
        ELSE gh_calls = {}

\* The same for the repositories created in this run and the organizations
\* that are not managed.
C19_MirroredWhenCreated ==
    (gh_pc = "done" /\ (gh_created \/ ~gh_managed)) =>
        IF gh_managed
        THEN /\ gh_repo = Repo(gh_args.description, gh_args.homepage,
                               gh_args.options \cup gh_args.defaults)
             /\ "gerrit" \in gh_teams
        ELSE gh_calls = {}

\* ---- C21
\* =========================================================================
\*  Properties of the review expirer (specification SpecExpire)
\* =========================================================================
\* How many times a revision was given to expire_patch_set.
C21_Abandons(revision) ==
    Cardinality({k \in 1..Len(er_expired) : er_expired[k] = revision})

C21_Negative(row) ==
    \E k \in 1..Len(row.approvals) : row.approvals[k] \in {"-1", "-2"}

\* C21: when the run ends, every change row of the query was abandoned once
\* if its current patch set carries an approval of -1 or -2 and not at all
\* otherwise, and nothing was abandoned for the statistics row.
C21_AbandonIffNegative ==
    er_pc = "done" =>
        /\ \A i \in 1..Len(er_stdout) :
              LET row == er_stdout[i]
              IN ~row.rowCount =>
                    C21_Abandons(row.revision) =
                        IF C21_Negative(row) THEN 1 ELSE 0
        /\ C21_Abandons(StatsRow.revision) = 0
        /\ Len(er_expired) <= Len(er_stdout) - 1

\* A run over a change with two negative approvals and a change with none.
C21_Witness ==
    /\ er_pc = "done"
    /\ Len(er_stdout) = 3
    /\ er_stdout[1].approvals = <<"-1", "-2">>
    /\ er_stdout[2].approvals = <<"1", "2">>
    /\ er_expired = <<"r1">>
\* ---- end C21

\* ---- C22
\* =========================================================================
\*  Properties of the pull-request closer (specification SpecCloseLive)
\* =========================================================================
\* Every call to GitHub returns: the script runs on.
SpecCloseLive == SpecClose /\ WF_vars(NextClose)

\* The places of the calls of one kind for one pull request.
C22_Calls(op, project, number) ==
    {k \in 1..Len(cp_calls) :
        cp_calls[k] = [op |-> op, project |-> project, number |-> number]}

\* A project whose pull requests are to be closed and whose repository is
\* found.
C22_Closing(s) ==
    s.at.has_github /\ ~s.at.has_pull_requests /\ s.at.lookup = "found"

C22_AtEnd ==
    cp_pc = "done" =>
        \A i \in 1..Len(cp_sections) :
            LET s == cp_sections[i]
            IN IF C22_Closing(s)
               THEN \A n \in 1..s.at.pulls :
                        /\ Cardinality(C22_Calls("create_comment", s.project, n)) = 1
                        /\ Cardinality(C22_Calls("edit", s.project, n)) = 1
                        /\ \A c \in C22_Calls("create_comment", s.project, n) :
                              \A e \in C22_Calls("edit", s.project, n) : c < e
               ELSE \A k \in 1..Len(cp_calls) : cp_calls[k].project # s.project

\* C22: the run ends, and when it has ended every open pull request of a
\* project that uses GitHub, lacks has-pull-requests and is found was
\* commented once and then closed, and no pull request of another project
\* was touched; a project that is not found does not stop the run.
C22_CommentThenClose == []C22_AtEnd /\ <>(cp_pc = "done")

\* A run that skipped a project it could not find and closed the two pull
\* requests of the next.
C22_Witness ==
    /\ cp_pc = "done"
    /\ Len(cp_sections) = 2
    /\ cp_sections[1].at = [has_github |-> TRUE, has_pull_requests |-> FALSE,
                            lookup |-> "KeyError", pulls |-> 1]
    /\ C22_Closing(cp_sections[2])
    /\ cp_sections[2].at.pulls = 2
    /\ Len(cp_calls) = 4
\* ---- end C22

\* ---- C23
\* =========================================================================
\*  Routing of the impact hook (specification SpecImpact)
\* =========================================================================
\* One invocation notifies at most once and never in both ways: nothing
\* when the log does not carry the tag, bugs only for DocImpact on a merged
\* change, one mail and no bug for any other tag.
C23_OneNotification ==
    imp_pc \in {"done", "raised"} =>
        /\ Len(bugs) + mails <= 1
        /\ ~impacted(git_log, args.impact) => (bugs = <<>> /\ mails = 0)
        /\ bugs # <<>> =>
              (Lower(args.impact) = "docimpact" /\ args.hook = "change-merged")
        /\ (impacted(git_log, args.impact) /\ Lower(args.impact) # "docimpact")
              => (mails = 1 /\ bugs = <<>>)
        /\ Lower(args.impact) = "docimpact" => mails = 0

\* C23: one invocation performs at most one notification, a bug for
\* DocImpact on a merged change and a mail for any other tag, never both;
\* and no bug is created when Launchpad already holds a bug with the same
\* title.
C23_Routing ==
    /\ C23_OneNotification
    /\ \A k \in 1..Len(bugs) : bugs[k].title \notin lp_titles
\* ---- end C23

\* ---- C24
\* =========================================================================
\*  Properties of a sequence of bug hooks (specification SpecHooks)
\* =========================================================================
\* A status does not move backwards: Fix Released stays, Fix Committed
\* stays or becomes Fix Released.
C24_Forward(old, new) ==
    /\ old = "Fix Released" => new = "Fix Released"
    /\ old = "Fix Committed" => new \in {"Fix Committed", "Fix Released"}

C24_Step ==
    /\ C24_Forward(bugtask_status, bugtask_status')
    /\ Len(related_tasks') = Len(related_tasks)
    /\ \A k \in 1..Len(related_tasks) :
          C24_Forward(related_tasks[k].status, related_tasks'[k].status)

\* C24: whatever hooks are run one after the other on a bug, with any
\* branch and prefix, no step takes the bug task or a related task from Fix
\* Released to another status or from Fix Committed to anything but Fix
\* Released.
C24_NeverBackwards == [][C24_Step]_vars

\* A patch set was proposed on a series whose related tasks are Fix
\* Committed and Fix Released, with a reference that asks for In Progress,
\* for a bug whose task is Fix Released.
C24_Witness ==
    /\ ub_pc = "done"
    /\ ub_args.hook = "patchset-created"
    /\ ub_args.branch = <<"stable", "/", "grizzly">>
    /\ needs_change(changes_needed, "set_in_progress")
    /\ bugtask_status = "Fix Released"
    /\ Len(related_tasks) = 2
    /\ \A k \in 1..2 :
          related_tasks[k].bug_target_name = <<"nova", "/", "grizzly">>
    /\ related_tasks[1].status = "Fix Committed"
    /\ related_tasks[2].status = "Fix Released"
\* ---- end C24

\* ---- C25
\* =========================================================================
\*  The push of a new project (specification Spec)
\* =========================================================================
\* C25: manage_projects calls push_to_gerrit, and replicates after it, only
\* for a project it has created in Gerrit in this run; the push template is
\* then one of the two templates of make_local_copy and not None, the copy
\* having been made by make_local_copy for a project that the project list
\* does not hold.
C25_PushOnlyWhenCreated ==
    script = "manage_projects" =>
        /\ (pc = "push_to_gerrit" /\ project_created)
              => /\ push_string \in {PushCopyHeads, PushMaster}
                 /\ section.project \notin project_list
                 /\ "gerrit.createProject" \in Ops(log)
                 /\ {"git clone upstream", "git init"} \cap Ops(log) # {}
                 /\ "git clone remote_url" \notin Ops(log)
        /\ {"push", "push --tags"} \cap Ops(log) # {}
              => /\ project_created
                 /\ "gerrit.createProject" \in Ops(log)
                 /\ {"push", "push --tags"} \subseteq Ops(log)
        /\ (pc = "sync_upstream" /\ "gerrit.replicate" \in Ops(log))
              => (GERRIT_REPLICATE /\ "push" \in Ops(log))

\* A project without upstream was created, initialized, pushed and
\* replicated.
C25_Witness ==
    /\ script = "manage_projects"
    /\ pc = "sync_upstream"
    /\ push_string = PushMaster
    /\ InOrder(log, <<Api("gerrit.createProject"), Git("git init"),
                      Ev("push", PushMaster \o remote_url(section.project), TRUE),
                      Api("gerrit.replicate")>>)
\* ---- end C25

\* ---- C26
\* =========================================================================
\*  The progress cache in track_upstream (specification Spec)
\* =========================================================================
C26_SyncOps ==
    {"push origin refs/heads/*:refs/heads/*", "push origin --tags",
     "remote update upstream --prune"}

\* Upstream is synchronized only for a project with track-upstream, without
\* no-gerrit, whose cache entry says pushed-to-gerrit.
C26_Synced ==
    (script = "track_upstream" /\ C26_SyncOps \cap Ops(log) # {})
        => /\ "track-upstream" \in section.options
           /\ "no-gerrit" \notin section.options
           /\ cache_at_start[section.project].pushed = "true"
           /\ project_cache[section.project].pushed = "true"

\* A project the cache does not hold, or holds with a false flag, is left
\* without a command, and the loop goes on with the next project.
C26_Step ==
    (script = "track_upstream" /\ ~interrupted') =>
        /\ (pc = "begin" /\ project_cache[section.project].pushed # "true")
              => /\ pc' \in {"loop", "except"}
                 /\ log' = log
                 /\ log = <<>>
        /\ pc = "except" => (pc' = "loop" /\ idx' = idx + 1)
        /\ (pc = "begin" /\ pc' = "loop") => idx' = idx + 1

\* C26: track_upstream pushes upstream branches to Gerrit only for a project
\* with the track-upstream option, without no-gerrit, whose progress-cache
\* entry has pushed-to-gerrit true; a project without entry or with a false
\* flag is never synchronized and the loop goes on to the next project.
C26_SyncOnlyWhenPushed == []C26_Synced /\ [][C26_Step]_vars

\* The first project had no cache entry; the second has been synchronized.
C26_Witness ==
    /\ script = "track_upstream"
    /\ idx = 2
    /\ pc = "end"
    /\ failed_before
    /\ cache_at_start[ProjectId(1)] = CacheAbsent
    /\ C26_SyncOps \subseteq Ops(log)
\* ---- end C26

\* ---- C27
\* =========================================================================
\*  Failures of the ACL reconciliation (specification Spec)
\* =========================================================================
\* The commands of process_acls, its cleanup included.
C27_AclOps == AclReconciliationOps \cup Ops(acl_cleanup)

\* The handler of the loop is never reached from process_acls.
C27_Contained ==
    (script = "manage_projects" /\ pc = "except" /\ log # <<>>)
        => log[Len(log)].op \notin C27_AclOps

\* process_acls is followed by the GitHub step of the same project, whatever
\* happened in it.
C27_Step ==
    (script = "manage_projects" /\ pc = "process_acls" /\ ~interrupted')
        => /\ pc' = "github"
           /\ idx' = idx
           /\ section' = section

\* C27: an exception of the ACL reconciliation, or a failed commit or push
\* of the ACL, does not leave process_acls: the GitHub step of the project
\* follows in the same iteration, and the handler that ends an iteration is
\* not reached from process_acls.
C27_AclFailureContained == []C27_Contained /\ [][C27_Step]_vars

\* refs/meta/config could not be fetched; the repository was then created
\* on GitHub and replicated.
C27_Witness ==
    /\ script = "manage_projects"
    /\ pc = "end"
    /\ "fetch +refs/meta/config" \in Ops(log)
    /\ "remote update --prune" \notin Ops(log)
    /\ InOrder(log, <<GitSsh("fetch +refs/meta/config"), Git("branch -D config"),
                      Api("github.create_repo"), Api("gerrit.replicate")>>)

\* The push of the ACL failed; the repository was then created on GitHub.
C27_WitnessPush ==
    /\ script = "manage_projects"
    /\ pc = "end"
    /\ \E e \in AclEnv :
          /\ e.push = "push" /\ ~acl_raises(e) /\ e.copy = "diff"
          /\ \E k \in 1..(Len(log) - Len(acl_try(e)) + 1) :
                SubSeq(log, k, k + Len(acl_try(e)) - 1) = acl_try(e)
    /\ "github.create_repo" \in Ops(log)
\* ---- end C27

\* ---- C28
\* =========================================================================
\*  Properties of the Zanata registration (specification SpecZanata)
\* =========================================================================
C28_Put(what) == {Request("PUT", what, s) : s \in {"201", "403", "conn"}}
C28_Get(what) == {Request("GET", what, s) : s \in {"200", "404", "conn"}}
C28_Sent(requests) == {requests[k] : k \in 1..Len(requests)}

\* What a register() of the project of entry zn_i does.
C28_Step ==
    (zn_pc = "loop" /\ zn_i <= Len(zn_entries) /\ zn_i' = zn_i + 1) =>
        LET name == zn_entries[zn_i].name
            sent == C28_Sent(zn_requests')
        IN  /\ sent \cap C28_Put("project") # {}
                  => ~zn_server[name].registered
            /\ sent \cap C28_Put("master") # {}
                  => (~zn_server[name].master /\ zn_server'[name].registered)
            /\ \A k \in 1..Len(zn_requests') :
                  zn_requests'[k] \in C28_Put("project") \ {Request("PUT", "project", "201")}
                      => (k = Len(zn_requests') /\ zn_raised')
            /\ \A j, k \in 1..Len(zn_requests') :
                  (zn_requests'[j].what = "master" /\ zn_requests'[k].what = "project")
                      => k < j
            /\ name \in zn_succeeded => sent \cap (C28_Put("project") \cup C28_Put("master")) = {}
            /\ zn_pc' = "loop"

C29_OverridesStay ==
    rc_count > 0 =>
        \A n \in EnvNames :
            rc_latest[n] # "absent" =>
                (rc_env[n] = rc_latest[n] /\ os_environ[n] = rc_latest[n])

\* A third command runs with GIT_SSH as the first call set it although
\* GIT_SSH was unset when the process started and neither later call
\* named it.
C29_Witness ==
    /\ rc_count = MaxCommands
    /\ rc_override = NoOverride
    /\ rc_latest["GIT_SSH"] = "wrapper1"
    /\ rc_latest["HOME"] = "absent"
    /\ rc_env["GIT_SSH"] = "wrapper1"
    /\ rc_env["HOME"] = "unset"
\* ---- end C29

\* ---- C30
\* =========================================================================
\*  Properties of the tasks of find_bugs (specification SpecTasks)
\* =========================================================================
\* The references to bug b the loop has gone through.
C30_Refs(b) == {k \in 1..(ft_i - 1) : ft_matches[k].bug_number = b}

\* The Task find_bugs is to hold for bug b.
C30_Expected(b) ==
    LET k == first_in_projects(ft_launchpad[b], ft_projects)
        refs == C30_Refs(b)
    IN  IF refs = {} \/ k = 0 THEN NoTask
        ELSE Task(b, k, ft_matches[CHOOSE r \in refs : \A m \in refs : r <= m].prefix)

\* C30: find_bugs holds for each bug number at most one Task: that of the
\* first bug task whose target is among the groups of the project, with the
\* changes the prefix of the first reference to the bug asks for; a bug
\* that is unknown or has no task in the groups has none; what is returned
\* is these Tasks, and nothing for a project flagged no-launchpad-bugs.
C30_OneTaskPerBug ==
    /\ \A b \in BugNumbers : bugtasks[b] = C30_Expected(b)
    /\ \A s, t \in ft_returned : s.bug = t.bug => s = t
    /\ (ft_pc = "returned" /\ "no-launchpad-bugs" \notin ft_entry.options)
          => ft_returned = {C30_Expected(b) : b \in BugNumbers} \ {NoTask}
    /\ (ft_pc = "returned" /\ "no-launchpad-bugs" \in ft_entry.options)
          => ft_returned = {}

\* Three references: bug 555 with no prefix, then an unknown bug, then 555
\* again as Related-; the one Task is the second bug task of 555, the first
\* being outside the groups, with the changes of a closing reference.
C30_Witness ==
    /\ ft_pc = "returned"
    /\ ft_matches = <<Match(None, "555"), Match(None, "555555"),
                      Match(<<"Related", "-">>, "555")>>
    /\ ~ft_launchpad["555555"].known
    /\ ft_launchpad["555"].bug_tasks = <<<<"glance">>, <<"nova">>>>
    /\ ft_projects = {<<"nova">>}
    /\ ft_returned = {Task("555", 2, None)}
    /\ "set_fix_released" \in bugtasks["555"].changes_needed
\* ---- end C30

====
